---------------------------- MODULE Spec2Model ----------------------------
(***************************************************************************)
(* fsplayer: a fullscreen video player driving libVLC.                     *)
(*                                                                         *)
(* Two builds are modelled:                                                *)
(*   - the X11 build, fsplayer.c (its text is carried by src/README.md):   *)
(*     main() with its initialization chain, its X11 event loop and its    *)
(*     teardown;                                                           *)
(*   - the Win32 build, src/win32/main.cpp: FormKeyDown, rrTimerTimer,     *)
(*     FormClose and the destructor.                                       *)
(*                                                                         *)
(* libVLC and the X server are the environment: what they return is drawn  *)
(* from small sets, and the engine's clock and lifecycle state move on     *)
(* their own between the program's steps.                                  *)
(***************************************************************************)
EXTENDS Integers, Sequences, FiniteSets, TLC

VARIABLES
    build,               \* "x11" (fsplayer.c) or "win32" (main.cpp)
    pc,                  \* control point of the modelled program
    iErr,                \* main: iErr / win32: giErr
    iPlay,               \* main: iPlay
    iRunning,            \* main: iRunning / win32: giState
    pX11Display,         \* "NULL", "open" or "closed"
    wInput,              \* "uninit", "None" or "wInput"
    wTaskbar,            \* "None" or "wTaskbar"
    pVlcInst,            \* "NULL", "inst" or "released"
    pVlcPlayer,          \* "NULL", "player" or "released"
    pVlcAudioTrackId,    \* [alloc |-> "NULL" | "heap" | "freed", ids |-> sequence]
    iEndTimeMs,          \* media length read at startup
    iNumVlcAudioTracks,
    iVlcAudioTrack,      \* audio-track cursor: [set, v]; not set = never assigned
    kc,                  \* key-code table: symbolic key -> physical code, 0 = absent
    vlc,                 \* the engine: [state, time, volume, track, size]
    x11,                 \* the X server as the program sees it
    it,                  \* what the current loop iteration has observed
    last,                \* the last key press dispatched and the call it issued
    initLog,             \* initialization steps executed, in order
    firstFail,           \* the first failing initialization step and its code
    tdLog,               \* teardown operations performed, in order
    printed,             \* the error code whose message was printed (0: none)
    nEvents              \* display events read so far

vars == << build, pc, iErr, iPlay, iRunning, pX11Display, wInput, wTaskbar,
           pVlcInst, pVlcPlayer, pVlcAudioTrackId, iEndTimeMs,
           iNumVlcAudioTracks, iVlcAudioTrack, kc, vlc, x11, it, last,
           initLog, firstFail, tdLog, printed, nEvents >>

---------------------------------------------------------------------------
(* Program constants *)

FSPLAYER_10SEC == 10000
FSPLAYER_1MIN == 60000
FSPLAYER_10MIN == 600000

ERROR_FSPLAYER_USAGE == 1
ERROR_FSPLAYER_X11 == 2
ERROR_FSPLAYER_VLC == 3
ERROR_FSPLAYER_FAIL == 4
ERROR_FSPLAYER_MEM == 5
ERROR_FSPLAYER_VLCRUN == 6

W32_ERROR_FSPLAYER_MEM == 2
FSPLAYER_STATE_PLAYING == 1

(* libvlc_state_t *)
libvlc_NothingSpecial == 0
libvlc_Playing == 3
libvlc_Paused == 4
libvlc_Stopped == 5
libvlc_Ended == 6
libvlc_Error == 7

VolumeStep == 10
VolumeMax == 100
X11VolumeFloor == 0
W32VolumeFloor == 1

---------------------------------------------------------------------------
(* Bounds of the model *)

TimeGrain == 5000        \* engine times are multiples of TimeGrain (ms)
MaxTick == 130           \* ... up to MaxTick * TimeGrain in KeySpec
SessionTicks == 2        \* ... up to SessionTicks * TimeGrain in a run of main()
MaxEvents == 2           \* display events read in one run of main()
MaxTracks == 3           \* audio tracks the engine may report

---------------------------------------------------------------------------
(* Key dispatch and the key handlers, as pure functions *)

(* The order of the if / else-if chain of main's KeyPress branch. *)
KeyChain ==
    << "Down", "End", "Esc", "Home", "KpBegin", "KpDown", "KpEnd", "KpHome",
       "KpLeft", "KpMinus", "KpMult", "KpPageDown", "KpPageUp", "KpPlus",
       "KpRight", "KpUp", "Left", "PgDown", "PgUp", "Right", "Space", "Up" >>

Keys == {KeyChain[i] : i \in 1..Len(KeyChain)}

(* The keys of FormKeyDown's switch. *)
W32Keys ==
    {"vkDown", "vkEnd", "vkEscape", "vkHome", "vkSubtract", "vkAdd", "vkLeft",
     "vkPrior", "vkMultiply", "vkNext", "vkRight", "vkSpace", "vkUp"}

(* XKeysymToKeycode on a keyboard that has every key: code i for the i-th key. *)
StdKeycodes == [k \in Keys |-> CHOOSE i \in 1..Len(KeyChain) : KeyChain[i] = k]

(* A keyboard without keypad: the keypad keys are absent (0); Home and End
   share one physical code. *)
SparseKeycodes ==
    [k \in Keys |->
        IF k \in {"KpBegin", "KpDown", "KpEnd", "KpHome", "KpLeft", "KpMinus",
                  "KpMult", "KpPageDown", "KpPageUp", "KpPlus", "KpRight",
                  "KpUp"}
        THEN 0
        ELSE IF k = "Home" THEN StdKeycodes["End"] ELSE StdKeycodes[k]]

KeyTables == {StdKeycodes, SparseKeycodes}
SessionKeyTables == {StdKeycodes}

(* Physical key codes an event may carry: 0, the mapped ones, an unmapped one. *)
KeyCodes == 0..(Len(KeyChain) + 1)

(* The first branch of the chain that matches: "kcX && keycode == kcX", and
   for the keypad multiply also "iNumVlcAudioTracks > 1". *)
X11Dispatch(table, code, n) ==
    LET hit(i) == /\ table[KeyChain[i]] # 0
                  /\ code = table[KeyChain[i]]
                  /\ (KeyChain[i] = "KpMult" => n > 1)
        S == {i \in 1..Len(KeyChain) : hit(i)}
    IN  IF S = {} THEN "none"
        ELSE KeyChain[CHOOSE i \in S : \A j \in S : i <= j]

NoCall == [op |-> "none", arg |-> 0]
Call(op, arg) == [op |-> op, arg |-> arg]

(* SeekBackward without the test against the step. *)
SeekBackward_NoClamp(t, step) == t - step

(* Left / Down / Page Down: the time passed to set_time. *)
SeekBackward(t, step) == IF t <= step THEN 0 ELSE t - step

(* Up / Page Up: the set_time call made, if any. *)
SeekForward(t, E, step) ==
    IF t < E - FSPLAYER_10SEC
    THEN Call("set_time", IF t < E - step THEN t + step ELSE E - FSPLAYER_10SEC)
    ELSE NoCall

(* SeekRight testing the play time, not the target, against the end. *)
SeekRight_TestsCurrent(t, E) ==
    IF t < E THEN Call("set_time", t + FSPLAYER_10SEC) ELSE NoCall

(* Right: the set_time call made, if any. *)
SeekRight(t, E) ==
    IF t + FSPLAYER_10SEC < E THEN Call("set_time", t + FSPLAYER_10SEC) ELSE NoCall

(* End: the time passed to set_time. *)
SeekEnd(E) == E - FSPLAYER_10SEC

(* Keypad minus / plus: the volume passed to set_volume. *)
VolumeDown_StepOnly(v, floor) == v - VolumeStep
VolumeDown(v, floor) == IF v - VolumeStep < floor THEN floor ELSE v - VolumeStep
VolumeUp(v) == IF v + VolumeStep > VolumeMax THEN VolumeMax ELSE v + VolumeStep

(* Keypad multiply: the cursor after the press. *)
X11NextTrack_NoWrap(cur, n) == cur + 1
X11NextTrack(cur, n) == IF cur + 1 = n THEN 0 ELSE cur + 1
W32NextTrack(cur, n) == IF cur + 1 >= n THEN 0 ELSE cur + 1

(* pVlcAudioTrackId[cur]: an index outside the allocated list reads whatever
   lies there (g). *)
TrackIdAt(ids, cur, g) == IF cur \in 0..(Len(ids) - 1) THEN ids[cur + 1] ELSE g

(* The KeyPress branch of main's event loop for the dispatched key: the one
   call it issues, the audio-track cursor and whether it clears iRunning. *)
X11KeyPress(key, t, vol, E, n, cur, ids, g) ==
    LET R(c) == [call |-> c, cur |-> cur, stop |-> FALSE]
    IN  CASE key = "Down"  -> R(Call("set_time", SeekBackward(t, FSPLAYER_1MIN)))
          [] key = "End"   -> R(Call("set_time", SeekEnd(E)))
          [] key = "Esc"   -> [call |-> NoCall, cur |-> cur, stop |-> TRUE]
          [] key = "Home"  -> R(Call("set_time", 0))
          [] key = "KpBegin"    -> R(Call("position", 5))
          [] key = "KpDown"     -> R(Call("position", 2))
          [] key = "KpEnd"      -> R(Call("position", 1))
          [] key = "KpHome"     -> R(Call("position", 7))
          [] key = "KpLeft"     -> R(Call("position", 4))
          [] key = "KpMinus"    -> R(Call("set_volume", VolumeDown(vol, X11VolumeFloor)))
          [] key = "KpMult"     ->
                [call |-> Call("set_track", TrackIdAt(ids, X11NextTrack(cur, n), g)),
                 cur |-> X11NextTrack(cur, n), stop |-> FALSE]
          [] key = "KpPageDown" -> R(Call("position", 3))
          [] key = "KpPageUp"   -> R(Call("position", 9))
          [] key = "KpPlus"     -> R(Call("set_volume", VolumeUp(vol)))
          [] key = "KpRight"    -> R(Call("position", 6))
          [] key = "KpUp"       -> R(Call("position", 8))
          [] key = "Left"   -> R(Call("set_time", SeekBackward(t, FSPLAYER_10SEC)))
          [] key = "PgDown" -> R(Call("set_time", SeekBackward(t, FSPLAYER_10MIN)))
          [] key = "PgUp"   -> R(SeekForward(t, E, FSPLAYER_10MIN))
          [] key = "Right"  -> R(SeekRight(t, E))
          [] key = "Space"  -> R(Call("pause", 0))
          [] key = "Up"     -> R(SeekForward(t, E, FSPLAYER_1MIN))
          [] OTHER -> R(NoCall)

(* TrfMain::FormKeyDown. *)
FormKeyDown(key, t, vol, E, n, cur, ids, g) ==
    LET R(c) == [call |-> c, cur |-> cur, stop |-> FALSE]
    IN  CASE key = "vkDown"   -> R(Call("set_time", SeekBackward(t, FSPLAYER_1MIN)))
          [] key = "vkEnd"    -> R(Call("set_time", SeekEnd(E)))
          [] key = "vkEscape" -> [call |-> Call("stop", 0), cur |-> cur, stop |-> TRUE]
          [] key = "vkHome"   -> R(Call("set_time", 0))
          [] key = "vkSubtract" -> R(Call("set_volume", VolumeDown(vol, W32VolumeFloor)))
          [] key = "vkAdd"    -> R(Call("set_volume", VolumeUp(vol)))
          [] key = "vkLeft"   -> R(Call("set_time", SeekBackward(t, FSPLAYER_10SEC)))
          [] key = "vkPrior"  -> R(SeekForward(t, E, FSPLAYER_10MIN))
          [] key = "vkMultiply" ->
                IF n > 1
                THEN [call |-> Call("set_track", TrackIdAt(ids, W32NextTrack(cur, n), g)),
                      cur |-> W32NextTrack(cur, n), stop |-> FALSE]
                ELSE R(NoCall)
          [] key = "vkNext"   -> R(Call("set_time", SeekBackward(t, FSPLAYER_10MIN)))
          [] key = "vkRight"  -> R(SeekRight(t, E))
          [] key = "vkSpace"  -> R(Call("pause", 0))
          [] key = "vkUp"     -> R(SeekForward(t, E, FSPLAYER_1MIN))
          [] OTHER -> R(NoCall)

---------------------------------------------------------------------------
(* The environment: libVLC and the X server *)

(* What a call does to the engine. *)
EngineApply(v, call) ==
    CASE call.op = "set_time"   -> [v EXCEPT !.time = call.arg]
      [] call.op = "set_volume" -> [v EXCEPT !.volume = call.arg]
      [] call.op = "set_track"  -> [v EXCEPT !.track = call.arg]
      [] call.op = "pause"      ->
            [v EXCEPT !.state = IF @ = libvlc_Playing THEN libvlc_Paused
                                ELSE IF @ = libvlc_Paused THEN libvlc_Playing
                                ELSE @]
      [] call.op = "stop"       -> [v EXCEPT !.state = libvlc_Stopped, !.time = -1]
      [] OTHER -> v

(* PositionWindow on the player's master: it moves only when the window is
   smaller than the screen in both dimensions. *)
PositionWindow(x, call) ==
    IF call.op = "position" /\ x.small THEN [x EXCEPT !.pos = call.arg] ELSE x

(* Engine times of a whole run, and the lengths get_length may report
   (0 and -1: no length). *)
SessionTimes == {TimeGrain * k : k \in 0..SessionTicks}
SessionLengths == {-1, 0} \cup {TimeGrain * k : k \in 1..SessionTicks}

(* Track ids as libvlc_audio_get_track_description lists them. *)
EngineTrackIds == << 2, 5, 7, 11, 13, 17 >>
TrackCounts == {1, MaxTracks}

(* What an uninitialized int or a read past the list may hold. *)
UninitInts == {-1, 0, MaxTracks}
GarbageIds == {-7}

(* The description lists libvlc_audio_get_track_description may return when
   the track count is n: NULL (no entry), one entry short, n entries. *)
TrackDescs(n) == {SubSeq(EngineTrackIds, 1, k) : k \in {0, n - 1, n} \cap 0..n}

(* memset(pVlcAudioTrackId, 0, sizeof(n * sizeof(int))) clears sizeof(size_t)
   bytes: two ints of the list (LP64), one on the 32-bit Win32 build. *)
MemsetInts(b) == IF b = "win32" THEN 1 ELSE 2

(* The id list after malloc, memset and the loop over the description list:
   entry i holds the i-th description's id; an entry the loop did not reach
   holds 0 where memset cleared it and what malloc left there (g)
   elsewhere. *)
TrackIdList(b, n, desc, g) ==
    [i \in 1..n |-> IF i <= Len(desc) THEN desc[i]
                    ELSE IF i <= MemsetInts(b) THEN 0 ELSE g]

(* StateStops testing for the Stopped state alone. *)
StateStops_OnlyStopped(s) == s = libvlc_Stopped

(* libvlc_media_player_get_state(p) >= libvlc_Stopped *)
StateStops(s) == s >= libvlc_Stopped

(* TimeStops with a strict comparison. *)
TimeStops_Strict(t, E) == t > E

(* iTimeMs >= iEndTimeMs *)
TimeStops(t, E) == t >= E

(* TimeFails taking -1 for a valid time. *)
TimeFails_BelowMinusOne(t) == t < -1

(* iTimeMs < 0 *)
TimeFails(t) == t < 0

---------------------------------------------------------------------------
(* fsplayer.c, main(): bookkeeping of the steps *)

InitPcs == {"args", "open_display", "preflight", "create_input", "intern_atoms",
            "libvlc_new", "media_new", "play_paused", "get_length",
            "track_list", "find_vlc", "fullscreen", "pre_loop"}
LoopPcs == {"loop_test", "select", "drain", "state_check", "time_check",
            "focus_check"}
TeardownPcs == {"td_stop", "td_taskbar", "td_message", "td_player", "td_inst",
                "td_free", "td_destroy", "td_close", "done"}

NoFail == [step |-> "none", code |-> 0]

(* The first failing step is remembered; later failures do not replace it. *)
NoteFail(step, code) ==
    firstFail' = IF firstFail = NoFail /\ code # 0
                 THEN [step |-> step, code |-> code] ELSE firstFail

(* An "if (!iErr) { ... }" block whose body is skipped. *)
SkipBlock(next) ==
    /\ pc' = next
    /\ UNCHANGED << build, iErr, iPlay, iRunning, pX11Display, wInput, wTaskbar,
                    pVlcInst, pVlcPlayer, pVlcAudioTrackId, iEndTimeMs,
                    iNumVlcAudioTracks, iVlcAudioTrack, kc, vlc, x11, it, last,
                    initLog, firstFail, tdLog, printed, nEvents >>

---------------------------------------------------------------------------
(* fsplayer.c, main(): the initialization chain *)

(* What the window search may leave in the caller's wVlc. *)
VlcHandles == {"None", "wVlc"}

(* FindVlcWindow answering with the code of the pre-flight collision. *)
FindVlcErr_CollisionCode(w) == IF w = "None" THEN ERROR_FSPLAYER_VLCRUN ELSE 0

(* FindVlcWindow's return: ERROR_FSPLAYER_FAIL when no window was stored
   through pWinVlc. *)
FindVlcErr(w) == IF w = "None" THEN ERROR_FSPLAYER_FAIL ELSE 0

(* The pre-flight test taking the lookup's return as it comes. *)
PreflightErr_NotInverted(ret) == ret

(* if (iErr) iErr = 0; else iErr = ERROR_FSPLAYER_VLCRUN *)
PreflightErr(ret) == IF ret # 0 THEN 0 ELSE ERROR_FSPLAYER_VLCRUN

(* argc != 2, FilenameExist(argv[1]) *)
CheckArgs ==
    /\ pc = "args"
    /\ \E ok \in BOOLEAN :
          /\ iErr' = IF ok THEN 0 ELSE ERROR_FSPLAYER_USAGE
          /\ NoteFail("args", IF ok THEN 0 ELSE ERROR_FSPLAYER_USAGE)
    /\ initLog' = Append(initLog, "args")
    /\ pc' = "open_display"
    /\ UNCHANGED << build, iPlay, iRunning, pX11Display, wInput, wTaskbar,
                    pVlcInst, pVlcPlayer, pVlcAudioTrackId, iEndTimeMs,
                    iNumVlcAudioTracks, iVlcAudioTrack, kc, vlc, x11, it, last,
                    tdLog, printed, nEvents >>

(* XInitThreads, XOpenDisplay *)
OpenDisplay ==
    /\ pc = "open_display"
    /\ IF iErr # 0 THEN SkipBlock("preflight")
       ELSE /\ \E ok \in BOOLEAN :
                  /\ pX11Display' = IF ok THEN "open" ELSE "NULL"
                  /\ iErr' = IF ok THEN 0 ELSE ERROR_FSPLAYER_X11
                  /\ NoteFail("open_display", IF ok THEN 0 ELSE ERROR_FSPLAYER_X11)
            /\ initLog' = Append(initLog, "open_display")
            /\ pc' = "preflight"
            /\ UNCHANGED << build, iPlay, iRunning, wInput, wTaskbar, pVlcInst,
                            pVlcPlayer, pVlcAudioTrackId, iEndTimeMs,
                            iNumVlcAudioTracks, iVlcAudioTrack, kc, vlc, x11, it,
                            last, tdLog, printed, nEvents >>

(* Screen geometry, then FindVlcWindow as the pre-flight check: finding the
   engine's window is the error, not finding it clears iErr. *)
Preflight ==
    /\ pc = "preflight"
    /\ IF iErr # 0 THEN SkipBlock("create_input")
       ELSE /\ \E w \in VlcHandles :
                  /\ x11' = [x11 EXCEPT !.wVlc = w]
                  /\ iErr' = PreflightErr(FindVlcErr(w))
                  /\ NoteFail("preflight", PreflightErr(FindVlcErr(w)))
            /\ initLog' = Append(initLog, "preflight")
            /\ pc' = "create_input"
            /\ UNCHANGED << build, iPlay, iRunning, pX11Display, wInput, wTaskbar,
                            pVlcInst, pVlcPlayer, pVlcAudioTrackId, iEndTimeMs,
                            iNumVlcAudioTracks, iVlcAudioTrack, kc, vlc, it,
                            last, tdLog, printed, nEvents >>

(* XCreateWindow(wInput) *)
CreateInput ==
    /\ pc = "create_input"
    /\ IF iErr # 0 THEN SkipBlock("intern_atoms")
       ELSE /\ \E ok \in BOOLEAN :
                  /\ wInput' = IF ok THEN "wInput" ELSE "None"
                  /\ x11' = [x11 EXCEPT !.created = ok]
                  /\ iErr' = IF ok THEN 0 ELSE ERROR_FSPLAYER_X11
                  /\ NoteFail("create_input", IF ok THEN 0 ELSE ERROR_FSPLAYER_X11)
            /\ initLog' = Append(initLog, "create_input")
            /\ pc' = "intern_atoms"
            /\ UNCHANGED << build, iPlay, iRunning, pX11Display, wTaskbar,
                            pVlcInst, pVlcPlayer, pVlcAudioTrackId, iEndTimeMs,
                            iNumVlcAudioTracks, iVlcAudioTrack, kc, vlc, it, last,
                            tdLog, printed, nEvents >>

(* XInternAtom("STRING"), XInternAtom("WM_NAME") *)
InternAtoms ==
    /\ pc = "intern_atoms"
    /\ IF iErr # 0 THEN SkipBlock("libvlc_new")
       ELSE /\ \E ok \in BOOLEAN :
                  /\ iErr' = IF ok THEN 0 ELSE ERROR_FSPLAYER_X11
                  /\ NoteFail("intern_atoms", IF ok THEN 0 ELSE ERROR_FSPLAYER_X11)
            /\ initLog' = Append(initLog, "intern_atoms")
            /\ pc' = "libvlc_new"
            /\ UNCHANGED << build, iPlay, iRunning, pX11Display, wInput, wTaskbar,
                            pVlcInst, pVlcPlayer, pVlcAudioTrackId, iEndTimeMs,
                            iNumVlcAudioTracks, iVlcAudioTrack, kc, vlc, x11, it,
                            last, tdLog, printed, nEvents >>

(* XChangeProperty, XMapWindow, the key-code table (a missing key only
   prints a warning), libvlc_new *)
LibvlcNew ==
    /\ pc = "libvlc_new"
    /\ IF iErr # 0 THEN SkipBlock("media_new")
       ELSE /\ kc' \in SessionKeyTables
            /\ \E ok \in BOOLEAN :
                  /\ pVlcInst' = IF ok THEN "inst" ELSE "NULL"
                  /\ iErr' = IF ok THEN 0 ELSE ERROR_FSPLAYER_VLC
                  /\ NoteFail("libvlc_new", IF ok THEN 0 ELSE ERROR_FSPLAYER_VLC)
            /\ initLog' = Append(initLog, "libvlc_new")
            /\ pc' = "media_new"
            /\ UNCHANGED << build, iPlay, iRunning, pX11Display, wInput, wTaskbar,
                            pVlcPlayer, pVlcAudioTrackId, iEndTimeMs,
                            iNumVlcAudioTracks, iVlcAudioTrack, vlc, x11, it,
                            last, tdLog, printed, nEvents >>

(* libvlc_media_new_path, libvlc_media_player_new_from_media *)
MediaNew ==
    /\ pc = "media_new"
    /\ IF iErr # 0 THEN SkipBlock("play_paused")
       ELSE /\ \E mediaOk \in BOOLEAN, playerOk \in BOOLEAN :
                  LET ok == mediaOk /\ playerOk
                  IN  /\ pVlcPlayer' = IF ok THEN "player" ELSE "NULL"
                      /\ iErr' = IF ok THEN 0 ELSE ERROR_FSPLAYER_VLC
                      /\ NoteFail("media_new", IF ok THEN 0 ELSE ERROR_FSPLAYER_VLC)
            /\ initLog' = Append(initLog, "media_new")
            /\ pc' = "play_paused"
            /\ UNCHANGED << build, iPlay, iRunning, pX11Display, wInput, wTaskbar,
                            pVlcInst, pVlcAudioTrackId, iEndTimeMs,
                            iNumVlcAudioTracks, iVlcAudioTrack, kc, vlc, x11, it,
                            last, tdLog, printed, nEvents >>

(* iPlay = 1; iErr = libvlc_media_player_play (a failure prints a warning);
   libvlc_media_player_pause; sleep(1); iErr = libvlc_video_get_size *)
PlayPaused ==
    /\ pc = "play_paused"
    /\ IF iErr # 0 THEN SkipBlock("get_length")
       ELSE /\ iPlay' = 1
            /\ \E playRet \in {0, -1}, sizeRet \in {0, -1} :
                  /\ vlc' = [vlc EXCEPT
                               !.state = IF playRet = 0 THEN libvlc_Paused ELSE @,
                               !.time = IF playRet = 0 THEN 0 ELSE @,
                               !.size = IF sizeRet = 0 THEN "known" ELSE "failed"]
                  /\ iErr' = IF sizeRet # 0 THEN ERROR_FSPLAYER_VLC ELSE 0
                  /\ firstFail' =
                        IF playRet # 0
                        THEN [step |-> "play_paused", code |-> playRet]
                        ELSE IF sizeRet # 0
                        THEN [step |-> "get_size", code |-> ERROR_FSPLAYER_VLC]
                        ELSE firstFail
            /\ initLog' = initLog \o << "play_paused", "get_size" >>
            /\ pc' = "get_length"
            /\ UNCHANGED << build, iRunning, pX11Display, wInput, wTaskbar,
                            pVlcInst, pVlcPlayer, pVlcAudioTrackId, iEndTimeMs,
                            iNumVlcAudioTracks, iVlcAudioTrack, kc, x11, it, last,
                            tdLog, printed, nEvents >>

(* iEndTimeMs = libvlc_media_player_get_length; <= 0 is an error *)
GetLength ==
    /\ pc = "get_length"
    /\ IF iErr # 0 THEN SkipBlock("track_list")
       ELSE /\ \E len \in SessionLengths :
                  /\ iEndTimeMs' = len
                  /\ iErr' = IF len <= 0 THEN ERROR_FSPLAYER_VLC ELSE 0
                  /\ NoteFail("get_length", IF len <= 0 THEN ERROR_FSPLAYER_VLC ELSE 0)
            /\ initLog' = Append(initLog, "get_length")
            /\ pc' = "track_list"
            /\ UNCHANGED << build, iPlay, iRunning, pX11Display, wInput, wTaskbar,
                            pVlcInst, pVlcPlayer, pVlcAudioTrackId,
                            iNumVlcAudioTracks, iVlcAudioTrack, kc, vlc, x11, it,
                            last, tdLog, printed, nEvents >>

(* libvlc_audio_get_track_count; with more than one track the id list is
   allocated and filled from the track description list, which in a run of
   main() lists all n tracks (the shorter lists are runs of PressSpec) *)
TrackList ==
    /\ pc = "track_list"
    /\ IF iErr # 0 THEN SkipBlock("find_vlc")
       ELSE /\ \E n \in TrackCounts, mallocOk \in BOOLEAN, g \in GarbageIds :
               \E desc \in {SubSeq(EngineTrackIds, 1, n)} :
                  /\ iNumVlcAudioTracks' = n
                  /\ pVlcAudioTrackId' =
                        IF n > 1 /\ mallocOk
                        THEN [alloc |-> "heap", ids |-> TrackIdList(build, n, desc, g)]
                        ELSE pVlcAudioTrackId
                  /\ iErr' = IF n > 1 /\ ~mallocOk THEN ERROR_FSPLAYER_MEM ELSE 0
                  /\ NoteFail("track_list",
                              IF n > 1 /\ ~mallocOk THEN ERROR_FSPLAYER_MEM ELSE 0)
            /\ initLog' = Append(initLog, "track_list")
            /\ pc' = "find_vlc"
            /\ UNCHANGED << build, iPlay, iRunning, pX11Display, wInput, wTaskbar,
                            pVlcInst, pVlcPlayer, iEndTimeMs, iVlcAudioTrack, kc,
                            vlc, x11, it, last, tdLog, printed, nEvents >>

(* FindVlcWindow for real: not finding the engine's window is an error *)
FindVlc ==
    /\ pc = "find_vlc"
    /\ IF iErr # 0 THEN SkipBlock("fullscreen")
       ELSE /\ \E w \in VlcHandles :
                  /\ x11' = [x11 EXCEPT !.wVlc = w]
                  /\ iErr' = FindVlcErr(w)
                  /\ NoteFail("find_vlc", FindVlcErr(w))
            /\ initLog' = Append(initLog, "find_vlc")
            /\ pc' = "fullscreen"
            /\ UNCHANGED << build, iPlay, iRunning, pX11Display, wInput, wTaskbar,
                            pVlcInst, pVlcPlayer, pVlcAudioTrackId, iEndTimeMs,
                            iNumVlcAudioTracks, iVlcAudioTrack, kc, vlc, it,
                            last, tdLog, printed, nEvents >>

(* FindMaster, SetWindowFullscreen on the player's window (video at least as
   large as the screen) or on the input window, TaskbarFindAndUnmap,
   libvlc_media_player_set_time(0), libvlc_media_player_play *)
Fullscreen ==
    /\ pc = "fullscreen"
    /\ IF iErr # 0 THEN SkipBlock("pre_loop")
       ELSE /\ \E big \in BOOLEAN, bar \in {"absent", "panel"},
                  playRet \in {0, -1} :
                  /\ x11' = [x11 EXCEPT
                               !.fs = IF big THEN "vlc" ELSE "input",
                               !.small = ~big,
                               !.pos = IF big THEN 0 ELSE 5,
                               !.taskbar = IF bar = "panel" THEN "unmapped" ELSE bar]
                  /\ wTaskbar' = IF bar = "panel" THEN "wTaskbar" ELSE "None"
                  /\ vlc' = IF playRet = 0
                            THEN [vlc EXCEPT !.state = libvlc_Playing, !.time = 0]
                            ELSE [vlc EXCEPT !.time = 0]
                  /\ iErr' = IF playRet # 0 THEN ERROR_FSPLAYER_VLC ELSE 0
                  /\ NoteFail("play", IF playRet # 0 THEN ERROR_FSPLAYER_VLC ELSE 0)
            /\ initLog' = initLog \o << "fullscreen", "taskbar", "play" >>
            /\ pc' = "pre_loop"
            /\ UNCHANGED << build, iPlay, iRunning, pX11Display, wInput, pVlcInst,
                            pVlcPlayer, pVlcAudioTrackId, iEndTimeMs,
                            iNumVlcAudioTracks, iVlcAudioTrack, kc, it, last,
                            tdLog, printed, nEvents >>

(* iX11fd = ConnectionNumber(pX11Display), outside every "if (!iErr)": with
   the display not open this reads through a null pointer, and the run
   either dies there or goes on with an indeterminate descriptor. *)
PreLoop ==
    /\ pc = "pre_loop"
    /\ IF pX11Display = "open"
       THEN /\ pc' = "loop_test"
            /\ UNCHANGED x11
       ELSE /\ pc' \in {"crashed", "loop_test"}
            /\ x11' = [x11 EXCEPT !.nullUse = @ \cup {"ConnectionNumber"}]
    /\ UNCHANGED << build, iErr, iPlay, iRunning, pX11Display, wInput, wTaskbar,
                    pVlcInst, pVlcPlayer, pVlcAudioTrackId, iEndTimeMs,
                    iNumVlcAudioTracks, iVlcAudioTrack, kc, vlc, it, last,
                    initLog, firstFail, tdLog, printed, nEvents >>

---------------------------------------------------------------------------
(* fsplayer.c, main(): the X11 event loop *)

(* The windows XGetInputFocus may name: focus moves on its own between two
   looks of the program. *)
FocusHolders == {"input", "vlc", "master", "other"}

NotQueried == [q |-> FALSE, v |-> 0]
Queried(v) == [q |-> TRUE, v |-> v]
NewIteration == [esc |-> FALSE, ev |-> 0, st |-> NotQueried, tm |-> NotQueried,
                 timeout |-> 0, w |-> "none"]

(* sEventLoopTimeout as the loop sets it before each select(), and the wait
   it allows, in microseconds. *)
tv_sec == 1
tv_usec == 400000
SelectTimeoutUs == tv_sec * 1000000 + tv_usec

(* The events a run of main() is fed: key presses of one key of each kind
   (stop, pause, seek either way, jump, volume, audio track, two window
   positions), of code 0 and of an unmapped code; button releases; others. *)
SessionKeys == {"Esc", "Space", "Left", "Right", "End", "KpMinus", "KpMult",
                "KpBegin", "KpEnd"}
SessionKeyCodes == {StdKeycodes[k] : k \in SessionKeys} \cup {0, Len(KeyChain) + 1}

Events == [type : {"KeyPress"}, keycode : SessionKeyCodes]
          \cup {[type |-> "ButtonRelease", keycode |-> 0],
                [type |-> "Other", keycode |-> 0]}

(* while (iRunning && !iErr) *)
LoopTest ==
    /\ pc = "loop_test"
    /\ pc' = IF iRunning # 0 /\ iErr = 0 THEN "select" ELSE "td_stop"
    /\ it' = IF iRunning # 0 /\ iErr = 0 THEN NewIteration ELSE it
    /\ UNCHANGED << build, iErr, iPlay, iRunning, pX11Display, wInput, wTaskbar,
                    pVlcInst, pVlcPlayer, pVlcAudioTrackId, iEndTimeMs,
                    iNumVlcAudioTracks, iVlcAudioTrack, kc, vlc, x11, last,
                    initLog, firstFail, tdLog, printed, nEvents >>

(* The timeout is set and select() on the display's descriptor returns:
   input, or the timeout. *)
Select ==
    /\ pc = "select"
    /\ it' = [it EXCEPT !.timeout = SelectTimeoutUs]
    /\ pc' = "drain"
    /\ UNCHANGED << build, iErr, iPlay, iRunning, pX11Display, wInput, wTaskbar,
                    pVlcInst, pVlcPlayer, pVlcAudioTrackId, iEndTimeMs,
                    iNumVlcAudioTracks, iVlcAudioTrack, kc, vlc, x11, last,
                    initLog, firstFail, tdLog, printed, nEvents >>

(* The values a read of the cursor may give: iVlcAudioTrack has no
   initializer in main(), so until its first assignment the read is
   indeterminate. *)
CursorReads == IF iVlcAudioTrack.set THEN {iVlcAudioTrack.v} ELSE UninitInts

(* A KeyPress event with physical code `code`: the key the chain dispatches
   to, the play time the handler reads, and what the key's branch does (cur
   is the cursor value read, g what a read past the id list gives). *)
X11Press(code, cur, g) ==
    LET key == X11Dispatch(kc, code, iNumVlcAudioTracks)
        r == X11KeyPress(key, vlc.time, vlc.volume, iEndTimeMs,
                         iNumVlcAudioTracks, cur, pVlcAudioTrackId.ids, g)
    IN  [key |-> key, t |-> vlc.time, vol |-> vlc.volume, call |-> r.call,
         cur0 |-> cur, cur |-> r.cur, stop |-> r.stop]

(* The KeyPress branch of the loop, for the press p. *)
X11HandleKeyPress(p) ==
    /\ vlc' = EngineApply(vlc, p.call)
    /\ x11' = PositionWindow(x11, p.call)
    /\ iVlcAudioTrack' = IF p.cur = p.cur0 THEN iVlcAudioTrack
                         ELSE [set |-> TRUE, v |-> p.cur]
    /\ iRunning' = IF p.stop THEN 0 ELSE iRunning
    /\ it' = [it EXCEPT !.esc = @ \/ p.stop, !.ev = @ + 1]

(* The ButtonRelease branch: XRaiseWindow(wMaster), XSetInputFocus(wInput) *)
X11HandleButtonRelease ==
    /\ x11' = [x11 EXCEPT !.top = "master", !.focus = "input"]
    /\ it' = [it EXCEPT !.ev = @ + 1]
    /\ UNCHANGED << vlc, iVlcAudioTrack, iRunning >>

(* while (XPending) { XNextEvent; ... }: one event is read and handled *)
DrainEvent ==
    /\ pc = "drain"
    /\ nEvents < MaxEvents
    /\ \E ev \in Events, cur \in CursorReads, g \in GarbageIds :
          CASE ev.type = "KeyPress" ->
                  X11HandleKeyPress(X11Press(ev.keycode, cur, g))
            [] ev.type = "ButtonRelease" -> X11HandleButtonRelease
            [] OTHER -> /\ it' = [it EXCEPT !.ev = @ + 1]
                        /\ UNCHANGED << vlc, x11, iVlcAudioTrack, iRunning >>
    /\ nEvents' = nEvents + 1
    /\ pc' = "drain"
    /\ UNCHANGED << build, iErr, iPlay, pX11Display, wInput, wTaskbar, pVlcInst,
                    pVlcPlayer, pVlcAudioTrackId, iEndTimeMs, iNumVlcAudioTracks,
                    kc, last, initLog, firstFail, tdLog, printed >>

(* XPending returns 0 *)
DrainEnd ==
    /\ pc = "drain"
    /\ pc' = "state_check"
    /\ UNCHANGED << build, iErr, iPlay, iRunning, pX11Display, wInput, wTaskbar,
                    pVlcInst, pVlcPlayer, pVlcAudioTrackId, iEndTimeMs,
                    iNumVlcAudioTracks, iVlcAudioTrack, kc, vlc, x11, it, last,
                    initLog, firstFail, tdLog, printed, nEvents >>

(* if (iRunning) if (get_state >= libvlc_Stopped) iRunning = 0 *)
StateCheck ==
    /\ pc = "state_check"
    /\ IF iRunning # 0
       THEN /\ it' = [it EXCEPT !.st = Queried(vlc.state)]
            /\ iRunning' = IF StateStops(vlc.state) THEN 0 ELSE iRunning
       ELSE UNCHANGED << it, iRunning >>
    /\ pc' = "time_check"
    /\ UNCHANGED << build, iErr, iPlay, pX11Display, wInput, wTaskbar, pVlcInst,
                    pVlcPlayer, pVlcAudioTrackId, iEndTimeMs, iNumVlcAudioTracks,
                    iVlcAudioTrack, kc, vlc, x11, last, initLog, firstFail, tdLog,
                    printed, nEvents >>

(* if (iRunning) { iTimeMs = get_time; if (iTimeMs < 0) iErr = VLC;
   if (!iErr) if (iTimeMs >= iEndTimeMs) iRunning = 0; } *)
TimeCheck ==
    /\ pc = "time_check"
    /\ IF iRunning # 0
       THEN /\ it' = [it EXCEPT !.tm = Queried(vlc.time)]
            /\ iErr' = IF TimeFails(vlc.time) THEN ERROR_FSPLAYER_VLC ELSE iErr
            /\ iRunning' = IF iErr' = 0 /\ TimeStops(vlc.time, iEndTimeMs)
                           THEN 0 ELSE iRunning
       ELSE UNCHANGED << it, iErr, iRunning >>
    /\ pc' = "focus_check"
    /\ UNCHANGED << build, iPlay, pX11Display, wInput, wTaskbar, pVlcInst,
                    pVlcPlayer, pVlcAudioTrackId, iEndTimeMs, iNumVlcAudioTracks,
                    iVlcAudioTrack, kc, vlc, x11, last, initLog, firstFail, tdLog,
                    printed, nEvents >>

(* if (iRunning) { XGetInputFocus(&w); if (w == wVlc || w == wMaster)
   { XRaiseWindow(wInputMaster); XRaiseWindow(wMaster); XSetInputFocus(wInput) } }:
   of the two windows raised, the player's master is raised last and is the
   topmost. *)
FocusCheck ==
    /\ pc = "focus_check"
    /\ IF iRunning # 0
       THEN \E w \in FocusHolders :
               /\ it' = [it EXCEPT !.w = w]
               /\ x11' = IF w \in {"vlc", "master"}
                         THEN [x11 EXCEPT !.top = "master", !.focus = "input"]
                         ELSE [x11 EXCEPT !.focus = w]
       ELSE UNCHANGED << x11, it >>
    /\ pc' = "loop_test"
    /\ UNCHANGED << build, iErr, iPlay, iRunning, pX11Display, wInput, wTaskbar,
                    pVlcInst, pVlcPlayer, pVlcAudioTrackId, iEndTimeMs,
                    iNumVlcAudioTracks, iVlcAudioTrack, kc, vlc, last,
                    initLog, firstFail, tdLog, printed, nEvents >>

(* The control points at which the program is about to look at the engine:
   a change of the engine anywhere else in the loop is seen by the program
   exactly as the same change made at the next of these points. *)
EnginePcs == {"drain", "state_check", "time_check", "w32_run"}

(* The engine plays on its own threads: its clock advances ... *)
EngineTick ==
    /\ pc \in EnginePcs
    /\ vlc.state = libvlc_Playing
    /\ \E t \in SessionTimes :
          /\ t > vlc.time
          /\ vlc' = [vlc EXCEPT !.time = t]
    /\ UNCHANGED << build, pc, iErr, iPlay, iRunning, pX11Display, wInput,
                    wTaskbar, pVlcInst, pVlcPlayer, pVlcAudioTrackId, iEndTimeMs,
                    iNumVlcAudioTracks, iVlcAudioTrack, kc, x11, it, last,
                    initLog, firstFail, tdLog, printed, nEvents >>

(* ... and it reaches the end of the media, or fails: the input is gone and
   get_time reports -1. *)
EngineFinish ==
    /\ pc \in EnginePcs
    /\ vlc.state \in {libvlc_Playing, libvlc_Paused}
    /\ \E s \in {libvlc_Ended, libvlc_Error} :
          vlc' = [vlc EXCEPT !.state = s, !.time = -1]
    /\ UNCHANGED << build, pc, iErr, iPlay, iRunning, pX11Display, wInput,
                    wTaskbar, pVlcInst, pVlcPlayer, pVlcAudioTrackId, iEndTimeMs,
                    iNumVlcAudioTracks, iVlcAudioTrack, kc, x11, it, last,
                    initLog, firstFail, tdLog, printed, nEvents >>

---------------------------------------------------------------------------
(* fsplayer.c, main(): teardown *)

TdStep(next, op) ==
    /\ pc' = next
    /\ tdLog' = IF op = "" THEN tdLog ELSE Append(tdLog, op)

(* if (iPlay) libvlc_media_player_stop(pVlcPlayer) *)
TdStop ==
    /\ pc = "td_stop"
    /\ TdStep("td_taskbar", IF iPlay # 0 THEN "stop" ELSE "")
    /\ vlc' = IF iPlay # 0 THEN EngineApply(vlc, Call("stop", 0)) ELSE vlc
    /\ UNCHANGED << build, iErr, iPlay, iRunning, pX11Display, wInput, wTaskbar,
                    pVlcInst, pVlcPlayer, pVlcAudioTrackId, iEndTimeMs,
                    iNumVlcAudioTracks, iVlcAudioTrack, kc, x11, it, last,
                    initLog, firstFail, printed, nEvents >>

(* if (wTaskbar): a handle was recorded *)
TaskbarRecorded_Never(w) == FALSE

TaskbarRecorded(w) == w # "None"

(* TaskbarRaise(pX11Display, wTaskbar): XMapRaised only with a recorded handle *)
TdTaskbar ==
    /\ pc = "td_taskbar"
    /\ TdStep("td_message", IF TaskbarRecorded(wTaskbar) THEN "taskbar_raise" ELSE "")
    /\ x11' = IF TaskbarRecorded(wTaskbar) THEN [x11 EXCEPT !.taskbar = "raised"] ELSE x11
    /\ UNCHANGED << build, iErr, iPlay, iRunning, pX11Display, wInput, wTaskbar,
                    pVlcInst, pVlcPlayer, pVlcAudioTrackId, iEndTimeMs,
                    iNumVlcAudioTracks, iVlcAudioTrack, kc, vlc, it, last,
                    initLog, firstFail, printed, nEvents >>

(* switch (iErr): one message per error code, none for any other value *)
TdMessage ==
    /\ pc = "td_message"
    /\ LET known == iErr \in ERROR_FSPLAYER_USAGE..ERROR_FSPLAYER_VLCRUN
       IN  /\ TdStep("td_player", IF known THEN "message" ELSE "")
           /\ printed' = IF known THEN iErr ELSE printed
    /\ UNCHANGED << build, iErr, iPlay, iRunning, pX11Display, wInput, wTaskbar,
                    pVlcInst, pVlcPlayer, pVlcAudioTrackId, iEndTimeMs,
                    iNumVlcAudioTracks, iVlcAudioTrack, kc, vlc, x11, it, last,
                    initLog, firstFail, nEvents >>

(* if (pVlcPlayer) libvlc_media_player_release(pVlcPlayer) *)
TdPlayer ==
    /\ pc = "td_player"
    /\ TdStep("td_inst", IF pVlcPlayer # "NULL" THEN "release_player" ELSE "")
    /\ UNCHANGED << build, iErr, iPlay, iRunning, pX11Display, wInput, wTaskbar,
                    pVlcInst, pVlcPlayer, pVlcAudioTrackId, iEndTimeMs,
                    iNumVlcAudioTracks, iVlcAudioTrack, kc, vlc, x11, it, last,
                    initLog, firstFail, printed, nEvents >>

(* if (pVlcInst) libvlc_release(pVlcInst) *)
TdInst ==
    /\ pc = "td_inst"
    /\ TdStep("td_free", IF pVlcInst # "NULL" THEN "release_inst" ELSE "")
    /\ UNCHANGED << build, iErr, iPlay, iRunning, pX11Display, wInput, wTaskbar,
                    pVlcInst, pVlcPlayer, pVlcAudioTrackId, iEndTimeMs,
                    iNumVlcAudioTracks, iVlcAudioTrack, kc, vlc, x11, it, last,
                    initLog, firstFail, printed, nEvents >>

(* if (pVlcAudioTrackId) free(pVlcAudioTrackId) *)
TdFree ==
    /\ pc = "td_free"
    /\ TdStep("td_destroy", IF pVlcAudioTrackId.alloc # "NULL" THEN "free_ids" ELSE "")
    /\ UNCHANGED << build, iErr, iPlay, iRunning, pX11Display, wInput, wTaskbar,
                    pVlcInst, pVlcPlayer, pVlcAudioTrackId, iEndTimeMs,
                    iNumVlcAudioTracks, iVlcAudioTrack, kc, vlc, x11, it, last,
                    initLog, firstFail, printed, nEvents >>

(* if (wInput) XDestroyWindow(pX11Display, wInput): wInput has no
   initializer, so on a run that never reached XCreateWindow the test reads
   an indeterminate value, zero or not; and with the display not open the
   call goes through a null pointer. *)
TdDestroy ==
    /\ pc = "td_destroy"
    /\ \E nonzero \in BOOLEAN :
          /\ wInput = "wInput" => nonzero
          /\ wInput = "None" => ~nonzero
          /\ IF ~nonzero
             THEN TdStep("td_close", "") /\ UNCHANGED x11
             ELSE /\ tdLog' = Append(tdLog, "destroy_window")
                  /\ IF pX11Display = "open"
                     THEN pc' = "td_close" /\ UNCHANGED x11
                     ELSE /\ pc' \in {"crashed", "td_close"}
                          /\ x11' = [x11 EXCEPT !.nullUse = @ \cup {"XDestroyWindow"}]
    /\ UNCHANGED << build, iErr, iPlay, iRunning, pX11Display, wInput, wTaskbar,
                    pVlcInst, pVlcPlayer, pVlcAudioTrackId, iEndTimeMs,
                    iNumVlcAudioTracks, iVlcAudioTrack, kc, vlc, it, last,
                    initLog, firstFail, printed, nEvents >>

(* if (pX11Display) XCloseDisplay(pX11Display); return(0) *)
TdClose ==
    /\ pc = "td_close"
    /\ TdStep("done", IF pX11Display # "NULL" THEN "close_display" ELSE "")
    /\ pX11Display' = IF pX11Display # "NULL" THEN "closed" ELSE pX11Display
    /\ UNCHANGED << build, iErr, iPlay, iRunning, wInput, wTaskbar, pVlcInst,
                    pVlcPlayer, pVlcAudioTrackId, iEndTimeMs, iNumVlcAudioTracks,
                    iVlcAudioTrack, kc, vlc, x11, it, last, initLog, firstFail,
                    printed, nEvents >>

---------------------------------------------------------------------------
(* win32/main.cpp: the form's event handlers *)

(* TrfMain::FormCreate, the whole handler: the file from the command line or
   the open dialog, the engine, the media length, the track list, the view,
   the start of playback; on an error the message box and Terminate. *)
W32FormCreate ==
    /\ pc = "w32_create"
    /\ \E fileOk \in BOOLEAN, instOk \in BOOLEAN, playerOk \in BOOLEAN,
          sizeOk \in BOOLEAN, len \in SessionLengths, n \in TrackCounts,
          mallocOk \in BOOLEAN, g \in GarbageIds :
          \E desc \in {<< >>, SubSeq(EngineTrackIds, 1, n)} :
          LET err == IF ~fileOk THEN ERROR_FSPLAYER_USAGE
                     ELSE IF ~instOk \/ ~playerOk \/ len <= 0 THEN ERROR_FSPLAYER_VLC
                     ELSE IF n > 1 /\ ~mallocOk THEN W32_ERROR_FSPLAYER_MEM
                     ELSE 0
              loaded == fileOk /\ instOk /\ playerOk
          IN  /\ pVlcInst' = IF fileOk /\ instOk THEN "inst" ELSE "NULL"
              /\ pVlcPlayer' = IF loaded THEN "player" ELSE "NULL"
              /\ iEndTimeMs' = IF loaded THEN len ELSE iEndTimeMs
              /\ iNumVlcAudioTracks' =
                    IF loaded /\ len > 0
                    THEN (IF n > 1 /\ mallocOk /\ desc = << >> THEN 0 ELSE n)
                    ELSE iNumVlcAudioTracks
              /\ pVlcAudioTrackId' =
                    IF loaded /\ len > 0 /\ n > 1 /\ mallocOk
                    THEN [alloc |-> "heap", ids |-> TrackIdList(build, n, desc, g)]
                    ELSE pVlcAudioTrackId
              /\ vlc' = IF loaded
                        THEN [vlc EXCEPT
                                !.state = IF err = 0 THEN libvlc_Playing
                                          ELSE libvlc_Paused,
                                !.time = 0,
                                !.size = IF sizeOk THEN "known" ELSE "failed"]
                        ELSE vlc
              /\ initLog' = IF err = 0 THEN << "view_sizing", "play" >> ELSE initLog
              /\ iRunning' = IF err = 0 THEN FSPLAYER_STATE_PLAYING ELSE 0
              /\ printed' = err
              /\ firstFail' = IF err = 0 THEN firstFail
                              ELSE [step |-> "FormCreate", code |-> err]
              /\ pc' = IF err = 0 THEN "w32_run" ELSE "w32_terminated"
    /\ iErr' = 0
    /\ UNCHANGED << build, iPlay, pX11Display, wInput, wTaskbar, iVlcAudioTrack,
                    kc, x11, it, last, tdLog, nEvents >>

(* A key-down event with virtual key `key`: the play time the handler
   reads and what the key's case does. *)
W32Press(key, g) ==
    LET r == FormKeyDown(key, vlc.time, vlc.volume, iEndTimeMs,
                         iNumVlcAudioTracks, iVlcAudioTrack.v,
                         pVlcAudioTrackId.ids, g)
    IN  [key |-> key, t |-> vlc.time, vol |-> vlc.volume, call |-> r.call,
         cur |-> r.cur, stop |-> r.stop]

(* TrfMain::FormKeyDown for the press p; Escape also hides the form, stops
   the player and terminates the application. *)
W32HandleKeyDown(p) ==
    /\ vlc' = EngineApply(vlc, p.call)
    /\ iVlcAudioTrack' = [iVlcAudioTrack EXCEPT !.v = p.cur]
    /\ iRunning' = IF p.stop THEN 0 ELSE iRunning

W32KeyDown ==
    /\ pc = "w32_run"
    /\ nEvents < MaxEvents
    /\ \E key \in W32Keys \cup {"vkOther"}, g \in GarbageIds :
          LET p == W32Press(key, g)
          IN  /\ W32HandleKeyDown(p)
              /\ pc' = IF p.stop THEN "w32_terminated" ELSE pc
    /\ nEvents' = nEvents + 1
    /\ UNCHANGED << build, iErr, iPlay, pX11Display, wInput, wTaskbar, pVlcInst,
                    pVlcPlayer, pVlcAudioTrackId, iEndTimeMs, iNumVlcAudioTracks,
                    kc, x11, it, last, initLog, firstFail, tdLog, printed >>

(* stateVlcPlayer == libvlc_Stopped || == libvlc_Ended || == libvlc_Error *)
W32StateStops(s) == s \in {libvlc_Stopped, libvlc_Ended, libvlc_Error}

(* TrfMain::rrTimerTimer: while playing, an engine that has stopped, ended or
   failed hides the form and terminates the application. *)
W32Timer ==
    /\ pc = "w32_run"
    /\ IF iRunning = FSPLAYER_STATE_PLAYING
       THEN /\ it' = [it EXCEPT !.st = Queried(vlc.state)]
            /\ IF W32StateStops(vlc.state)
               THEN iRunning' = 0 /\ pc' = "w32_terminated"
               ELSE UNCHANGED << iRunning, pc >>
       ELSE UNCHANGED << it, iRunning, pc >>
    /\ UNCHANGED << build, iErr, iPlay, pX11Display, wInput, wTaskbar, pVlcInst,
                    pVlcPlayer, pVlcAudioTrackId, iEndTimeMs, iNumVlcAudioTracks,
                    iVlcAudioTrack, kc, vlc, x11, last, initLog, firstFail, tdLog,
                    printed, nEvents >>

(* The user closes the form. TrfMain::FormClose: if (gpVlcPlayer) stop *)
W32FormClose ==
    /\ pc = "w32_run"
    /\ pc' = "w32_destroy"
    /\ tdLog' = IF pVlcPlayer # "NULL" THEN Append(tdLog, "stop") ELSE tdLog
    /\ vlc' = IF pVlcPlayer # "NULL" THEN EngineApply(vlc, Call("stop", 0)) ELSE vlc
    /\ UNCHANGED << build, iErr, iPlay, iRunning, pX11Display, wInput, wTaskbar,
                    pVlcInst, pVlcPlayer, pVlcAudioTrackId, iEndTimeMs,
                    iNumVlcAudioTracks, iVlcAudioTrack, kc, x11, it, last,
                    initLog, firstFail, printed, nEvents >>

(* TrfMain::~TrfMain: the player, then the instance, are released and their
   pointers cleared; the track-id list is not freed. *)
W32Destroy ==
    /\ pc \in {"w32_destroy", "w32_terminated"}
    /\ pc' = "done"
    /\ tdLog' = tdLog \o (IF pVlcPlayer # "NULL" THEN << "release_player" >> ELSE << >>)
                      \o (IF pVlcInst # "NULL" THEN << "release_inst" >> ELSE << >>)
    /\ pVlcPlayer' = "NULL"
    /\ pVlcInst' = "NULL"
    /\ UNCHANGED << build, iErr, iPlay, iRunning, pX11Display, wInput, wTaskbar,
                    pVlcAudioTrackId, iEndTimeMs, iNumVlcAudioTracks,
                    iVlcAudioTrack, kc, vlc, x11, it, last, initLog, firstFail,
                    printed, nEvents >>

---------------------------------------------------------------------------
(* The whole program, either build *)

NoKey == [key |-> "none", t |-> 0, vol |-> 0, call |-> NoCall]

(* What is remembered of the press p. *)
Pressed(p) == [key |-> p.key, t |-> p.t, vol |-> p.vol, call |-> p.call]

Builds == {"x11", "win32"}

(* What both builds start from; main()'s locals without an initializer
   (wInput, iVlcAudioTrack) start unassigned, the Win32 globals start at 0. *)
InitCommon ==
    /\ build \in Builds
    /\ iErr = 0
    /\ iPlay = 0
    /\ iRunning = IF build = "x11" THEN 1 ELSE 0
    /\ pX11Display = "NULL"
    /\ wInput = IF build = "x11" THEN "uninit" ELSE "None"
    /\ wTaskbar = "None"
    /\ pVlcInst = "NULL"
    /\ pVlcPlayer = "NULL"
    /\ pVlcAudioTrackId = [alloc |-> "NULL", ids |-> << >>]
    /\ iEndTimeMs = 0
    /\ iNumVlcAudioTracks = 0
    /\ iVlcAudioTrack = [set |-> (build = "win32"), v |-> 0]
    /\ kc = [k \in Keys |-> 0]
    /\ vlc = [state |-> libvlc_NothingSpecial, time |-> -1, volume |-> VolumeMax,
              track |-> -1,
              size |-> "unknown"]
    /\ x11 = [taskbar |-> "absent", small |-> FALSE, pos |-> 0, focus |-> "other",
              top |-> "other", fs |-> "none", created |-> FALSE, nullUse |-> {},
              wVlc |-> "unset"]
    /\ it = NewIteration
    /\ last = NoKey
    /\ initLog = << >>
    /\ firstFail = NoFail
    /\ tdLog = << >>
    /\ printed = 0
    /\ nEvents = 0

Init ==
    /\ InitCommon
    /\ pc = IF build = "x11" THEN "args" ELSE "w32_create"

Next ==
    \/ CheckArgs \/ OpenDisplay \/ Preflight \/ CreateInput \/ InternAtoms
    \/ LibvlcNew \/ MediaNew \/ PlayPaused \/ GetLength \/ TrackList \/ FindVlc
    \/ Fullscreen \/ PreLoop
    \/ LoopTest \/ Select \/ DrainEvent \/ DrainEnd \/ StateCheck \/ TimeCheck
    \/ FocusCheck \/ EngineTick \/ EngineFinish
    \/ TdStop \/ TdTaskbar \/ TdMessage \/ TdPlayer \/ TdInst \/ TdFree
    \/ TdDestroy \/ TdClose
    \/ W32FormCreate \/ W32KeyDown \/ W32Timer \/ W32FormClose \/ W32Destroy

Spec == Init /\ [][Next]_vars

(* The steps the program takes by itself once the loop is entered: the
   bounded wait returns, XPending comes to report no event, the checks and
   the teardown calls return. *)
LoopAndTeardown ==
    \/ LoopTest \/ Select \/ DrainEnd \/ StateCheck \/ TimeCheck \/ FocusCheck
    \/ TdStop \/ TdTaskbar \/ TdMessage \/ TdPlayer \/ TdInst \/ TdFree
    \/ TdDestroy \/ TdClose

(* The start-up has succeeded and playback has started (the taskbar hidden
   or not, either window made fullscreen); the loop is about to be set up. *)
LiveInit ==
    /\ build = "x11"
    /\ pc = "pre_loop"
    /\ iErr = 0
    /\ iPlay = 1
    /\ iRunning = 1
    /\ pX11Display = "open"
    /\ wInput = "wInput"
    /\ wTaskbar \in {"None", "wTaskbar"}
    /\ pVlcInst = "inst"
    /\ pVlcPlayer = "player"
    /\ pVlcAudioTrackId = [alloc |-> "NULL", ids |-> << >>]
    /\ iEndTimeMs \in {TimeGrain * k : k \in 1..SessionTicks}
    /\ iNumVlcAudioTracks = 1
    /\ iVlcAudioTrack = [set |-> FALSE, v |-> 0]
    /\ kc = StdKeycodes
    /\ vlc = [state |-> libvlc_Playing, time |-> 0, volume |-> VolumeMax,
              track |-> -1, size |-> "known"]
    /\ \E big \in BOOLEAN :
          x11 = [taskbar |-> IF wTaskbar = "None" THEN "absent" ELSE "unmapped",
                 small |-> ~big, pos |-> IF big THEN 0 ELSE 5, focus |-> "other",
                 top |-> "other", fs |-> IF big THEN "vlc" ELSE "input",
                 created |-> TRUE, nullUse |-> {}, wVlc |-> "wVlc"]
    /\ it = NewIteration
    /\ last = NoKey
    /\ initLog = << "fullscreen", "taskbar", "play" >>
    /\ firstFail = NoFail
    /\ tdLog = << >>
    /\ printed = 0
    /\ nEvents = 0

LiveNext ==
    PreLoop \/ LoopAndTeardown \/ DrainEvent \/ EngineTick \/ EngineFinish

(* The runs in which the program keeps taking its own steps; no event need
   ever arrive and the engine need never move. *)
LiveSpec == LiveInit /\ [][LiveNext]_vars /\ WF_vars(LoopAndTeardown)

---------------------------------------------------------------------------
(* One key press on a playing session, over a wide range of media lengths
   and play times (the engine's clock may stand one grain past the length
   the media announced): the handlers of both builds *)

KeyTimes(E) == {t \in {TimeGrain * k : k \in 0..MaxTick} : t <= E + TimeGrain}
KeyLengths == {TimeGrain * k : k \in 1..MaxTick}

KeyInit ==
    /\ build \in Builds
    /\ pc = "key_wait"
    /\ iErr = 0
    /\ iPlay = 1
    /\ iRunning = 1
    /\ pX11Display = IF build = "x11" THEN "open" ELSE "NULL"
    /\ wInput = IF build = "x11" THEN "wInput" ELSE "None"
    /\ wTaskbar = "None"
    /\ pVlcInst = "inst"
    /\ pVlcPlayer = "player"
    /\ pVlcAudioTrackId = [alloc |-> "NULL", ids |-> << >>]
    /\ iEndTimeMs \in KeyLengths
    /\ iNumVlcAudioTracks = 1
    /\ iVlcAudioTrack = [set |-> (build = "win32"), v |-> 0]
    /\ kc = IF build = "x11" THEN StdKeycodes ELSE [k \in Keys |-> 0]
    /\ \E t \in KeyTimes(iEndTimeMs) \cup {-1} :
          vlc = [state |-> libvlc_Playing, time |-> t, volume |-> VolumeMax,
                 track |-> -1,
              size |-> "known"]
    /\ x11 = [taskbar |-> "absent", small |-> FALSE, pos |-> 0, focus |-> "input",
              top |-> "other", fs |-> IF build = "x11" THEN "vlc" ELSE "none",
              created |-> (build = "x11"), nullUse |-> {},
              wVlc |-> IF build = "x11" THEN "wVlc" ELSE "unset"]
    /\ it = NewIteration
    /\ last = NoKey
    /\ initLog = << >>
    /\ firstFail = NoFail
    /\ tdLog = << >>
    /\ printed = 0
    /\ nEvents = 0

(* XNextEvent delivers a KeyPress and the loop's KeyPress branch handles it. *)
X11KeyEvent ==
    /\ build = "x11"
    /\ pc = "key_wait"
    /\ \E code \in KeyCodes, cur \in CursorReads, g \in GarbageIds :
          LET p == X11Press(code, cur, g)
          IN  /\ X11HandleKeyPress(p)
              /\ last' = Pressed(p)
    /\ pc' = "key_done"
    /\ nEvents' = nEvents + 1
    /\ UNCHANGED << build, iErr, iPlay, pX11Display, wInput, wTaskbar, pVlcInst,
                    pVlcPlayer, pVlcAudioTrackId, iEndTimeMs, iNumVlcAudioTracks,
                    kc, initLog, firstFail, tdLog, printed >>

(* The form receives a key-down and FormKeyDown handles it. *)
W32KeyEvent ==
    /\ build = "win32"
    /\ pc = "key_wait"
    /\ \E key \in W32Keys \cup {"vkOther"}, g \in GarbageIds :
          LET p == W32Press(key, g)
          IN  /\ W32HandleKeyDown(p)
              /\ last' = Pressed(p)
    /\ pc' = "key_done"
    /\ nEvents' = nEvents + 1
    /\ UNCHANGED << build, iErr, iPlay, pX11Display, wInput, wTaskbar, pVlcInst,
                    pVlcPlayer, pVlcAudioTrackId, iEndTimeMs, iNumVlcAudioTracks,
                    kc, x11, it, initLog, firstFail, tdLog, printed >>

KeyNext == X11KeyEvent \/ W32KeyEvent

KeySpec == KeyInit /\ [][KeyNext]_vars

---------------------------------------------------------------------------
(* Properties of the key handlers (KeySpec). `last` is the key press that
   was handled: the key, the play time the handler read, the call it made. *)

(* C1: whenever a Right, Up or Page Up press at a play time t >= 0 makes the
   handler call set_time, the time passed lies in [0, iEndTimeMs - 10 s]. *)
C1_ForwardSeekMargin ==
    (/\ last.key \in {"Right", "Up", "PgUp", "vkRight", "vkUp", "vkPrior"}
     /\ last.t >= 0
     /\ last.call.op = "set_time")
    => last.call.arg \in 0..(iEndTimeMs - FSPLAYER_10SEC)

(* C2: a Left, Down or Page Down press with step s at a play time t,
   0 <= t <= iEndTimeMs, passes max(0, t - s) to set_time, which is never
   negative and never above iEndTimeMs. *)
C2_BackwardSeekClamp ==
    LET s == CASE last.key \in {"Left", "vkLeft"} -> 10000
               [] last.key \in {"Down", "vkDown"} -> 60000
               [] last.key \in {"PgDown", "vkNext"} -> 600000
               [] OTHER -> 0
        target == IF last.t - s > 0 THEN last.t - s ELSE 0
    IN  (s # 0 /\ last.t >= 0 /\ last.t <= iEndTimeMs)
        => /\ last.call = Call("set_time", target)
           /\ vlc.time = target
           /\ last.call.arg >= 0
           /\ last.call.arg <= iEndTimeMs

(* Left at 5 s into a 125 s media asked for time 0. *)
C2_Witness ==
    /\ last.key = "Left"
    /\ iEndTimeMs = 125000
    /\ last.t = 5000
    /\ last.call = Call("set_time", 0)
    /\ vlc.time = 0

(* C3: a Right press whose target t + 10 s is at or past iEndTimeMs makes no
   set_time call and leaves the engine's play time as it was. *)
C3_RightRejected ==
    (last.key \in {"Right", "vkRight"} /\ last.t + 10000 >= iEndTimeMs)
    => (last.call = NoCall /\ vlc.time = last.t)

(* Right at 120 s into a 125 s media was rejected. *)
C3_Witness ==
    /\ last.key \in {"Right", "vkRight"}
    /\ iEndTimeMs = 125000
    /\ last.t = 120000
    /\ last.call = NoCall
    /\ vlc.time = 120000

(* C4: Home asks for time 0 and End for iEndTimeMs - 10 s, and for every
   positive media length the time asked for is in [0, iEndTimeMs]. *)
C4_HomeEndRange ==
    /\ last.key \in {"Home", "vkHome"} => last.call = Call("set_time", 0)
    /\ last.key \in {"End", "vkEnd"}
          => last.call = Call("set_time", iEndTimeMs - 10000)
    /\ last.key \in {"Home", "vkHome", "End", "vkEnd"}
          => last.call.arg \in 0..iEndTimeMs

---------------------------------------------------------------------------
(* Properties of a run of main() (Spec). `it` is what the current loop
   iteration has seen: an Escape press, the events it read, the state and
   the time it queried. The loop is Running while it iterates and Stopped
   once its test has failed. *)

(* C5: at the end of an iteration the loop is about to stop exactly if the
   iteration processed an Escape press, or queried a state at or beyond
   Stopped, or queried a negative time, or queried a time at or past
   iEndTimeMs; and once the loop has stopped no iteration runs and no event
   is read. *)
C5_LoopExit ==
    [][ /\ pc = "focus_check"
           => ((iRunning = 0 \/ iErr # 0)
               <=> \/ it.esc
                   \/ (it.st.q /\ it.st.v >= libvlc_Stopped)
                   \/ (it.tm.q /\ (it.tm.v < 0 \/ it.tm.v >= iEndTimeMs)))
        /\ (pc = "loop_test" /\ (iRunning = 0 \/ iErr # 0)) => pc' = "td_stop"
        /\ pc \in TeardownPcs => (pc' \notin LoopPcs /\ nEvents' = nEvents)
      ]_vars

(* The loop has stopped because the time queried was the media's end time. *)
C5_Witness ==
    /\ pc = "td_stop"
    /\ it.tm = Queried(iEndTimeMs)
    /\ ~it.esc
    /\ iRunning = 0
    /\ iErr = 0

(* C6: once the state check has read a state at or beyond Stopped, the loop
   is no longer Running from that point of the same iteration on, whatever
   events the iteration drained; the Win32 timer terminates the
   application on the same reading. *)
C6_StateCheckStops ==
    (it.st.q /\ it.st.v >= libvlc_Stopped)
    => IF build = "x11"
       THEN iRunning = 0 /\ pc \in {"time_check", "focus_check", "loop_test"}
                                   \cup TeardownPcs \cup {"crashed"}
       ELSE iRunning = 0 /\ pc \in {"w32_terminated", "done"}

(* The state check read Ended in an iteration that had drained events, none
   of them Escape. *)
C6_Witness ==
    /\ pc = "time_check"
    /\ it.st = Queried(libvlc_Ended)
    /\ it.ev > 0
    /\ ~it.esc
    /\ iRunning = 0

(* C7: once the time check has read a negative time, the engine error code
   is set, the loop does not iterate again, and teardown runs in full: the
   stop, the taskbar restored if it had been hidden, the engine error's
   message, the releases. *)
C7_NegativeTime ==
    [][ (it.tm.q /\ it.tm.v < 0)
        => /\ iErr = ERROR_FSPLAYER_VLC
           /\ pc \in {"focus_check", "loop_test"} \cup TeardownPcs
           /\ pc = "loop_test" => pc' = "td_stop"
           /\ pc = "done"
                 => LET did(op) == \E i \in 1..Len(tdLog) : tdLog[i] = op
                    IN  /\ did("stop")
                        /\ did("taskbar_raise") <=> wTaskbar # "None"
                        /\ x11.taskbar # "unmapped"
                        /\ did("message") /\ printed = ERROR_FSPLAYER_VLC
                        /\ did("release_player") /\ did("release_inst")
                        /\ did("free_ids") <=> pVlcAudioTrackId.alloc = "heap"
                        /\ did("destroy_window") /\ did("close_display")
      ]_vars

(* A run whose time check read -1 has finished its teardown, the taskbar
   having been hidden. *)
C7_Witness ==
    /\ pc = "done"
    /\ it.tm = Queried(-1)
    /\ printed = ERROR_FSPLAYER_VLC
    /\ wTaskbar # "None"
    /\ x11.taskbar = "raised"

(* C8: once an initialization step of main() has failed, it is the last
   step executed, the loop body is not entered, and the error code it set
   is the one iErr keeps and the one whose message teardown prints. *)
C8_ShortCircuit ==
    (build = "x11" /\ firstFail # NoFail)
    => /\ initLog[Len(initLog)] = firstFail.step
       /\ pc \notin (LoopPcs \ {"loop_test"})
       /\ iErr = firstFail.code
       /\ pc = "done" => printed = firstFail.code

(* C9: on no path is a call made through the display handle while the
   display is not open, and no run dies of it. *)
C9_NoUseOfClosedDisplay ==
    /\ x11.nullUse = {}
    /\ pc # "crashed"

(* C10: the teardown operations performed come in the order stop, taskbar
   restore, message, player release, instance release, free of the id list,
   window destroy, display close; the stop is made iff playback was ever
   started and each release iff its resource was acquired. *)
C10_TeardownOrder ==
    pc = "done"
    => LET order == << "stop", "taskbar_raise", "message", "release_player",
                       "release_inst", "free_ids", "destroy_window",
                       "close_display" >>
           rank(op) == CHOOSE k \in 1..Len(order) : order[k] = op
           did(op) == \E i \in 1..Len(tdLog) : tdLog[i] = op
       IN  /\ \A i, j \in 1..Len(tdLog) :
                 i < j => rank(tdLog[i]) < rank(tdLog[j])
           /\ did("free_ids") <=> pVlcAudioTrackId.alloc = "heap"
           /\ build = "x11"
                 => /\ did("stop") <=> iPlay # 0
                    /\ did("taskbar_raise") <=> wTaskbar # "None"
                    /\ did("release_player") <=> pVlcPlayer = "player"
                    /\ did("release_inst") <=> pVlcInst = "inst"
                    /\ did("destroy_window") <=> x11.created
                    /\ did("close_display") <=> pX11Display = "closed"

---------------------------------------------------------------------------
(* A key held down: the loop handles the same key press again and again *)

MaxPresses == 4

(* The volumes libvlc_audio_get_volume may report when the first press
   arrives: -1 (no audio output) or a percentage. *)
PressVolumes == {-1, 0, 1, 5, 10, 15, 95, 100}

(* The key that is held, by the session's position. *)
PressPcs == {"hold_mult", "hold_minus", "hold_plus"}
X11HeldKey == [hold_mult |-> "KpMult", hold_minus |-> "KpMinus", hold_plus |-> "KpPlus"]
W32HeldKey == [hold_mult |-> "vkMultiply", hold_minus |-> "vkSubtract",
               hold_plus |-> "vkAdd"]

(* The session before the audio tracks are enumerated (the player is
   loaded; no event handled yet). *)
PressInit ==
    /\ build \in Builds
    /\ pc = "press_tracks"
    /\ iErr = 0
    /\ iPlay = 1
    /\ iRunning = 1
    /\ pX11Display = IF build = "x11" THEN "open" ELSE "NULL"
    /\ wInput = IF build = "x11" THEN "wInput" ELSE "None"
    /\ wTaskbar = "None"
    /\ pVlcInst = "inst"
    /\ pVlcPlayer = "player"
    /\ iNumVlcAudioTracks = 0
    /\ pVlcAudioTrackId = [alloc |-> "NULL", ids |-> << >>, filled |-> 0]
    /\ iEndTimeMs = TimeGrain
    /\ iVlcAudioTrack = [set |-> (build = "win32"), v |-> 0]
    /\ kc = IF build = "x11" THEN StdKeycodes ELSE [k \in Keys |-> 0]
    /\ \E v \in PressVolumes :
          vlc = [state |-> libvlc_Playing, time |-> 0, volume |-> v, track |-> -1,
              size |-> "known"]
    /\ x11 = [taskbar |-> "absent", small |-> FALSE, pos |-> 0, focus |-> "input",
              top |-> "other", fs |-> IF build = "x11" THEN "vlc" ELSE "none",
              created |-> (build = "x11"), nullUse |-> {},
              wVlc |-> IF build = "x11" THEN "wVlc" ELSE "unset"]
    /\ it = NewIteration
    /\ last = NoKey
    /\ initLog = << >>
    /\ firstFail = NoFail
    /\ tdLog = << >>
    /\ printed = 0
    /\ nEvents = 0

(* The track enumeration of main() and of FormCreate, malloc succeeding:
   the count, the id list filled from the description list (filled: the
   number of entries the loop wrote), Win32 resetting the count to 0 when
   there is no list; then the rest of the start-up, and a key is held. *)
PressTrackList ==
    /\ pc = "press_tracks"
    /\ \E n \in 0..MaxTracks, g \in GarbageIds : \E desc \in TrackDescs(n) :
          /\ n <= 1 => desc = SubSeq(EngineTrackIds, 1, n)
          /\ iNumVlcAudioTracks' = IF build = "win32" /\ n > 1 /\ desc = << >>
                                   THEN 0 ELSE n
          /\ pVlcAudioTrackId' =
                IF n > 1
                THEN [alloc |-> "heap", ids |-> TrackIdList(build, n, desc, g),
                      filled |-> Len(desc)]
                ELSE pVlcAudioTrackId
    /\ pc' \in PressPcs
    /\ UNCHANGED << build, iErr, iPlay, iRunning, pX11Display, wInput, wTaskbar,
                    pVlcInst, pVlcPlayer, iEndTimeMs, iVlcAudioTrack, kc, vlc,
                    x11, it, last, initLog, firstFail, tdLog, printed, nEvents >>

(* XNextEvent delivers the held key's KeyPress and the KeyPress branch
   handles it. *)
X11HeldKeyPress ==
    /\ build = "x11"
    /\ pc \in PressPcs
    /\ nEvents < MaxPresses
    /\ \E cur \in CursorReads, g \in GarbageIds :
          LET p == X11Press(kc[X11HeldKey[pc]], cur, g)
          IN  /\ X11HandleKeyPress(p)
              /\ last' = Pressed(p)
    /\ nEvents' = nEvents + 1
    /\ UNCHANGED << build, pc, iErr, iPlay, pX11Display, wInput, wTaskbar,
                    pVlcInst, pVlcPlayer, pVlcAudioTrackId, iEndTimeMs,
                    iNumVlcAudioTracks, kc, initLog, firstFail, tdLog, printed >>

(* The form receives the held key's key-down and FormKeyDown handles it. *)
W32HeldKeyDown ==
    /\ build = "win32"
    /\ pc \in PressPcs
    /\ nEvents < MaxPresses
    /\ \E g \in GarbageIds :
          LET p == W32Press(W32HeldKey[pc], g)
          IN  /\ W32HandleKeyDown(p)
              /\ last' = Pressed(p)
    /\ nEvents' = nEvents + 1
    /\ UNCHANGED << build, pc, iErr, iPlay, pX11Display, wInput, wTaskbar,
                    pVlcInst, pVlcPlayer, pVlcAudioTrackId, iEndTimeMs,
                    iNumVlcAudioTracks, kc, x11, it, initLog, firstFail, tdLog,
                    printed >>

PressNext == PressTrackList \/ X11HeldKeyPress \/ W32HeldKeyDown

PressSpec == PressInit /\ [][PressNext]_vars

---------------------------------------------------------------------------
(* The window search: FindVlcWindow over a window hierarchy *)

MaxWindows == 4

(* FSPLAYER_LIBVLCWMNAME, "VLC media player", byte by byte. *)
FSPLAYER_LIBVLCWMNAME ==
    << "V", "L", "C", " ", "m", "e", "d", "i", "a", " ", "p", "l", "a", "y", "e", "r" >>

(* The long_length argument of XGetWindowProperty: the number of 32-bit
   units of the property that are retrieved. *)
PropertyLongLength == 4

(* The WM_NAME(STRING) values the windows of a hierarchy may carry: none,
   the engine's title, the title followed by more text, and another name. *)
NoName == << "-" >>
WindowNames ==
    { NoName,
      FSPLAYER_LIBVLCWMNAME,
      FSPLAYER_LIBVLCWMNAME \o << " ", "2" >>,
      << "x", "t", "e", "r", "m" >> }

(* The entries a malformed child list may hold besides the window's
   children: the root, the window itself, the window's parent. *)
BackEdges == {"root", "self", "parent"}

wRootId == 1

(* The hierarchies: windows 1..n with 1 the root, each other window the
   child of an earlier one; every window with a name; XQueryTree lists the
   children bottom-up or top-down (desc), after the back-edges. *)
Hierarchies ==
    { [n |-> n, parent |-> par, name |-> nm, desc |-> d, back |-> b] :
         n \in {MaxWindows},
         par \in { f \in [1..MaxWindows -> 0..MaxWindows] :
                      /\ f[1] = 0
                      /\ \A i \in 2..MaxWindows : f[i] \in 1..(i - 1) },
         nm \in [1..MaxWindows -> WindowNames],
         d \in BOOLEAN,
         b \in {{}, BackEdges} }

(* The sequence of the elements of S, ascending (or descending). *)
RECURSIVE Sorted(_, _)
Sorted(S, desc) ==
    IF S = {} THEN << >>
    ELSE LET m == IF desc THEN CHOOSE x \in S : \A y \in S : y <= x
                  ELSE CHOOSE x \in S : \A y \in S : x <= y
         IN  << m >> \o Sorted(S \ {m}, desc)

(* XQueryTree(w): the child list returned for w. *)
QueryTree(T, w) ==
    LET par == IF T.parent[w] = 0 THEN << >> ELSE << T.parent[w] >>
        back == IF T.back = {} THEN << >> ELSE << wRootId, w >> \o par
    IN  back \o Sorted({c \in 1..T.n : T.parent[c] = w}, T.desc)

(* XGetWindowProperty(w, WM_NAME, 0, 4, False, STRING): at most
   4 * long_length bytes of the value, NUL-terminated by Xlib; NoName when
   the window has no such property. *)
GetWindowProperty(T, w) ==
    LET v == T.name[w]
        max == 4 * PropertyLongLength
    IN  IF v = NoName THEN NoName
        ELSE IF Len(v) > max THEN SubSeq(v, 1, max) ELSE v

(* FindX11Window(w, szValue): out holds what pReturn and pMaster point at and the
   windows whose property has been read so far; the result is iFound and
   out. The loop over the children is ScanChildren, from index i. *)
RECURSIVE FindX11Window(_, _, _, _)
RECURSIVE ScanChildren(_, _, _, _, _, _)
ScanChildren(T, w, szValue, kids, i, out) ==
    IF i > Len(kids) THEN [found |-> FALSE, out |-> out]
    ELSE IF kids[i] # w /\ kids[i] # wRootId /\ kids[i] # T.parent[w]
    THEN LET o == IF w = wRootId THEN [out EXCEPT !.master = kids[i]] ELSE out
             r == FindX11Window(T, kids[i], szValue, o)
         IN  IF r.found THEN r ELSE ScanChildren(T, w, szValue, kids, i + 1, r.out)
    ELSE ScanChildren(T, w, szValue, kids, i + 1, out)

FindX11Window(T, w, szValue, out) ==
    LET prop == GetWindowProperty(T, w)
        o == [out EXCEPT !.queried = Append(@, w)]
    IN  IF prop # NoName /\ prop = szValue
        THEN [found |-> TRUE, out |-> [o EXCEPT !.ret = w]]
        ELSE ScanChildren(T, w, szValue, QueryTree(T, w), 1, o)

(* FindVlcWindow(wRoot): both outputs reset to 0, the search from the root,
   and the error when no window was stored. *)
FindVlcWindow(T) ==
    LET r == FindX11Window(T, wRootId, FSPLAYER_LIBVLCWMNAME,
                           [ret |-> 0, master |-> 0, queried |-> << >>])
    IN  [found |-> r.found, wVlc |-> r.out.ret, wMaster |-> r.out.master,
         queried |-> r.out.queried, err |-> FindVlcErr(IF r.out.ret = 0 THEN "None" ELSE "wVlc")]

NoSearch == [found |-> FALSE, wVlc |-> 0, wMaster |-> 0, queried |-> << >>, err |-> 0]

(* The display is open and the server holds some hierarchy. *)
TreeInit ==
    /\ build = "x11"
    /\ pc = "tree_wait"
    /\ iErr = 0
    /\ iPlay = 0
    /\ iRunning = 1
    /\ pX11Display = "open"
    /\ wInput = "uninit"
    /\ wTaskbar = "None"
    /\ pVlcInst = "NULL"
    /\ pVlcPlayer = "NULL"
    /\ pVlcAudioTrackId = [alloc |-> "NULL", ids |-> << >>]
    /\ iEndTimeMs = 0
    /\ iNumVlcAudioTracks = 0
    /\ iVlcAudioTrack = [set |-> FALSE, v |-> 0]
    /\ kc = StdKeycodes
    /\ vlc = [state |-> libvlc_NothingSpecial, time |-> -1, volume |-> VolumeMax,
              track |-> -1,
              size |-> "unknown"]
    /\ \E T \in Hierarchies : x11 = [tree |-> T, search |-> NoSearch]
    /\ it = NewIteration
    /\ last = NoKey
    /\ initLog = << >>
    /\ firstFail = NoFail
    /\ tdLog = << >>
    /\ printed = 0
    /\ nEvents = 0

(* iErr = FindVlcWindow(pX11Display, wRoot, &wVlc, &wMaster) *)
TreeFindVlcWindow ==
    /\ pc = "tree_wait"
    /\ LET r == FindVlcWindow(x11.tree)
       IN  /\ x11' = [x11 EXCEPT !.search = r]
           /\ iErr' = r.err
    /\ pc' = "tree_done"
    /\ UNCHANGED << build, iPlay, iRunning, pX11Display, wInput, wTaskbar, pVlcInst,
                    pVlcPlayer, pVlcAudioTrackId, iEndTimeMs, iNumVlcAudioTracks,
                    iVlcAudioTrack, kc, vlc, it, last, initLog, firstFail, tdLog,
                    printed, nEvents >>

TreeNext == TreeFindVlcWindow

TreeSpec == TreeInit /\ [][TreeNext]_vars

---------------------------------------------------------------------------
(* Fullscreen coercion: SetWindowFullscreen on a window and its master *)

(* Coordinates a master window may be at, and the offsets of the target
   window's origin inside its master (none, or a frame's border and title
   bar). *)
MasterCoords == {-3, 0, 4}
InnerOffsets == { << 0, 0 >>, << 1, 2 >> }

(* XTranslateCoordinates(w, wRoot, 0, 0): the origin of the target window
   relative to the root, for a master at pos. *)
TranslateCoordinates(pos, inner) == << pos[1] + inner[1], pos[2] + inner[2] >>

(* The end of the corrective move: override-redirect is cleared again when
   it was found clear (iOverrideRedirect 0), else left as it is. *)
RestoreOverride_Never(iOverrideRedirect, flag) == flag
RestoreOverride(iOverrideRedirect, flag) ==
    IF ~iOverrideRedirect THEN FALSE ELSE flag

(* SetWindowFullscreen on the windows g: the decorations hint, the resize
   to the screen and the _NET_WM_STATE request, then the corrective move of
   the master under override-redirect: the flag is read (taken as set when
   XGetWindowAttributes fails, g.attrOk), set if it was read clear, and put
   back after the move. *)
SetWindowFullscreen(g) ==
    LET xy == TranslateCoordinates(g.masterPos, g.inner)
        g1 == [g EXCEPT !.hints = TRUE, !.resized = TRUE, !.netWmFs = TRUE,
                        !.xy = xy]
        iOverrideRedirect == IF g.attrOk THEN g.ovr ELSE TRUE
        during == IF ~iOverrideRedirect THEN TRUE ELSE g.ovr
    IN  IF xy[1] > 0 \/ xy[2] > 0
        THEN [g1 EXCEPT !.masterPos = << -xy[1], -xy[2] >>,
                        !.ovrDuringMove = during,
                        !.ovr = RestoreOverride(iOverrideRedirect, during),
                        !.moved = TRUE]
        ELSE g1

(* The player's window has been found; its master is somewhere on or off
   the screen. *)
FsInit ==
    /\ build = "x11"
    /\ pc = "fs_wait"
    /\ iErr = 0
    /\ iPlay = 1
    /\ iRunning = 1
    /\ pX11Display = "open"
    /\ wInput = "wInput"
    /\ wTaskbar = "None"
    /\ pVlcInst = "inst"
    /\ pVlcPlayer = "player"
    /\ pVlcAudioTrackId = [alloc |-> "NULL", ids |-> << >>]
    /\ iEndTimeMs = TimeGrain
    /\ iNumVlcAudioTracks = 1
    /\ iVlcAudioTrack = [set |-> FALSE, v |-> 0]
    /\ kc = StdKeycodes
    /\ vlc = [state |-> libvlc_Paused, time |-> 0, volume |-> VolumeMax, track |-> -1,
              size |-> "known"]
    /\ \E mx \in MasterCoords, my \in MasterCoords, in \in InnerOffsets,
          o \in BOOLEAN, a \in BOOLEAN :
          x11 = [masterPos |-> << mx, my >>, inner |-> in, ovr |-> o, attrOk |-> a,
                 ovr0 |-> o, hints |-> FALSE, resized |-> FALSE, netWmFs |-> FALSE,
                 xy |-> << 0, 0 >>, ovrDuringMove |-> FALSE, moved |-> FALSE]
    /\ it = NewIteration
    /\ last = NoKey
    /\ initLog = << >>
    /\ firstFail = NoFail
    /\ tdLog = << >>
    /\ printed = 0
    /\ nEvents = 0

(* SetWindowFullscreen(pX11Display, wVlc, wMaster, wRoot, scrx, scry) *)
FsSetWindowFullscreen ==
    /\ pc = "fs_wait"
    /\ x11' = SetWindowFullscreen(x11)
    /\ pc' = "fs_done"
    /\ UNCHANGED << build, iErr, iPlay, iRunning, pX11Display, wInput, wTaskbar,
                    pVlcInst, pVlcPlayer, pVlcAudioTrackId, iEndTimeMs,
                    iNumVlcAudioTracks, iVlcAudioTrack, kc, vlc, it, last, initLog,
                    firstFail, tdLog, printed, nEvents >>

FsNext == FsSetWindowFullscreen

FsSpec == FsInit /\ [][FsNext]_vars

---------------------------------------------------------------------------
(* Window geometry: the fullscreen branch of start-up, the view sizing of
   the Win32 form, and the keypad repositioning *)

(* The screen, in pixels. *)
ScreenW == 4
ScreenH == 3

(* Video sizes libvlc_video_get_size may report: below, at and above the
   screen in either dimension. *)
VideoSizes == (1..(ScreenW + 1)) \X (1..(ScreenH + 1))

(* The thickness of the frame a window manager puts around the player's
   window (0: the window is its own master). *)
FrameSizes == {0, 1}

(* if (vidx >= scrx || vidy >= scry) *)
VideoFillsScreen(vid, scr) == vid[1] >= scr[1] \/ vid[2] >= scr[2]

(* A window with its master, in the terms of SetWindowFullscreen, and the
   master's size as XGetGeometry reports it. *)
GeomWindow(pos, frame, w, h) ==
    [masterPos |-> pos, inner |-> << frame, frame >>, w |-> w + frame,
     h |-> h + frame, ovr |-> FALSE, attrOk |-> TRUE, ovr0 |-> FALSE,
     hints |-> FALSE, resized |-> FALSE, netWmFs |-> FALSE, xy |-> << 0, 0 >>,
     ovrDuringMove |-> FALSE, moved |-> FALSE]

(* XMoveResizeWindow(w, 0, 0, scrx, scry) inside SetWindowFullscreen: the
   master follows the size of its window. *)
ResizedToScreen(g, scr) ==
    [g EXCEPT !.w = scr[1] + g.inner[1], !.h = scr[2] + g.inner[2]]

(* PositionWindow(w, iKeypadPos, scrx, scry) on the master g. *)
PositionWindowAt_EitherSmaller(g, k, scr) ==
    IF g.w < scr[1] \/ g.h < scr[2]
    THEN [g EXCEPT !.masterPos = << (scr[1] - g.w) \div 2, (scr[2] - g.h) \div 2 >>]
    ELSE g
PositionWindowAt(g, k, scr) ==
    IF g.w < scr[1] /\ g.h < scr[2]
    THEN LET x == IF k \in {1, 4, 7} THEN 0
                  ELSE IF k \in {3, 6, 9} THEN scr[1] - g.w
                  ELSE (scr[1] - g.w) \div 2
             y == IF k \in {7, 8, 9} THEN 0
                  ELSE IF k \in {1, 2, 3} THEN scr[2] - g.h
                  ELSE (scr[2] - g.h) \div 2
         IN  [g EXCEPT !.masterPos = << x, y >>]
    ELSE g

(* The sizing of rrView in TrfMain::FormCreate. *)
ViewSizing(vid, scr) ==
    IF vid[1] >= scr[1] \/ vid[2] >= scr[2]
    THEN [x |-> 0, y |-> 0, w |-> scr[1], h |-> scr[2]]
    ELSE [x |-> (scr[1] - vid[1]) \div 2, y |-> (scr[2] - vid[2]) \div 2,
          w |-> vid[1], h |-> vid[2]]

NoView == [x |-> 0, y |-> 0, w |-> 0, h |-> 0]

(* The keypad keys that reposition the master. *)
KeypadKeys == {"KpEnd", "KpDown", "KpPageDown", "KpLeft", "KpBegin", "KpRight",
               "KpHome", "KpUp", "KpPageUp"}

(* Start-up has found the video's size and the player's window; nothing is
   fullscreen yet. *)
GeomInit ==
    /\ build \in Builds
    /\ pc = "geom_start"
    /\ iErr = 0
    /\ iPlay = 1
    /\ iRunning = 1
    /\ pX11Display = IF build = "x11" THEN "open" ELSE "NULL"
    /\ wInput = IF build = "x11" THEN "wInput" ELSE "None"
    /\ wTaskbar = "None"
    /\ pVlcInst = "inst"
    /\ pVlcPlayer = "player"
    /\ pVlcAudioTrackId = [alloc |-> "NULL", ids |-> << >>]
    /\ iEndTimeMs = TimeGrain
    /\ iNumVlcAudioTracks = 1
    /\ iVlcAudioTrack = [set |-> (build = "win32"), v |-> 0]
    /\ kc = IF build = "x11" THEN StdKeycodes ELSE [k \in Keys |-> 0]
    /\ vlc = [state |-> libvlc_Paused, time |-> 0, volume |-> VolumeMax, track |-> -1,
              size |-> "known"]
    /\ \E vid \in VideoSizes, frame \in FrameSizes, at \in {0, 1} :
          /\ build = "win32" => (frame = 0 /\ at = 0)
          /\ x11 = [scr |-> << ScreenW, ScreenH >>, vid |-> vid,
                    player |-> GeomWindow(<< at, at >>, frame, vid[1], vid[2]),
                    input |-> GeomWindow(<< 0, 0 >>, 0, 1, 1),
                    view |-> NoView, fs |-> "none"]
    /\ it = NewIteration
    /\ last = NoKey
    /\ initLog = << >>
    /\ firstFail = NoFail
    /\ tdLog = << >>
    /\ printed = 0
    /\ nEvents = 0

(* if (vidx >= scrx || vidy >= scry) SetWindowFullscreen(wVlc, wMaster)
   else { SetWindowFullscreen(wInput, wInputMaster);
          PositionWindow(wMaster, 5) } *)
GeomFullscreen ==
    /\ build = "x11"
    /\ pc = "geom_start"
    /\ x11' = IF VideoFillsScreen(x11.vid, x11.scr)
              THEN [x11 EXCEPT
                      !.player = SetWindowFullscreen(ResizedToScreen(@, x11.scr)),
                      !.fs = "vlc"]
              ELSE [x11 EXCEPT
                      !.input = SetWindowFullscreen(ResizedToScreen(@, x11.scr)),
                      !.player = PositionWindowAt(@, 5, x11.scr),
                      !.fs = "input"]
    /\ initLog' = Append(initLog, "fullscreen")
    /\ pc' = "geom_run"
    /\ UNCHANGED << build, iErr, iPlay, iRunning, pX11Display, wInput, wTaskbar,
                    pVlcInst, pVlcPlayer, pVlcAudioTrackId, iEndTimeMs,
                    iNumVlcAudioTracks, iVlcAudioTrack, kc, vlc, it, last,
                    firstFail, tdLog, printed, nEvents >>

(* The sizing of rrView at the end of FormCreate. *)
GeomViewSizing ==
    /\ build = "win32"
    /\ pc = "geom_start"
    /\ x11' = [x11 EXCEPT !.view = ViewSizing(x11.vid, x11.scr),
                          !.fs = IF VideoFillsScreen(x11.vid, x11.scr)
                                 THEN "view" ELSE "none"]
    /\ initLog' = Append(initLog, "view_sizing")
    /\ pc' = "geom_run"
    /\ UNCHANGED << build, iErr, iPlay, iRunning, pX11Display, wInput, wTaskbar,
                    pVlcInst, pVlcPlayer, pVlcAudioTrackId, iEndTimeMs,
                    iNumVlcAudioTracks, iVlcAudioTrack, kc, vlc, it, last,
                    firstFail, tdLog, printed, nEvents >>

(* A keypad key is pressed in the loop: PositionWindow(wMaster, k). *)
GeomKeypadPress ==
    /\ build = "x11"
    /\ pc = "geom_run"
    /\ nEvents < MaxPresses
    /\ \E key \in KeypadKeys :
          LET p == X11Press(kc[key], 0, 0)
          IN  /\ x11' = IF p.call.op = "position"
                        THEN [x11 EXCEPT
                                !.player = PositionWindowAt(@, p.call.arg, x11.scr)]
                        ELSE x11
              /\ last' = Pressed(p)
    /\ nEvents' = nEvents + 1
    /\ UNCHANGED << build, pc, iErr, iPlay, iRunning, pX11Display, wInput,
                    wTaskbar, pVlcInst, pVlcPlayer, pVlcAudioTrackId, iEndTimeMs,
                    iNumVlcAudioTracks, iVlcAudioTrack, kc, vlc, it, initLog,
                    firstFail, tdLog, printed >>

GeomNext == GeomFullscreen \/ GeomViewSizing \/ GeomKeypadPress

GeomSpec == GeomInit /\ [][GeomNext]_vars

---------------------------------------------------------------------------
(* The key-code table: its initialisation and the dispatch chain run on it *)

(* A keyboard none of whose keys is found. *)
NoKeycodes == [k \in Keys |-> 0]

TableKeyTables == KeyTables \cup {NoKeycodes}

(* The test of the i-th branch of the chain on the code of the event. *)
ChainHit_NoZeroTest(table, code, n, i) ==
    /\ code = table[KeyChain[i]]
    /\ (KeyChain[i] = "KpMult" => n > 1)
ChainHit(table, code, n, i) ==
    /\ table[KeyChain[i]] # 0
    /\ code = table[KeyChain[i]]
    /\ (KeyChain[i] = "KpMult" => n > 1)

(* The branches of the chain that run for the code, from the i-th on: "if
   ... else if ... else if ...", so the first whose test holds and no
   other. *)
RECURSIVE X11Branches_NoElse(_, _, _, _)
X11Branches_NoElse(table, code, n, i) ==
    IF i > Len(KeyChain) THEN << >>
    ELSE (IF ChainHit(table, code, n, i) THEN << KeyChain[i] >> ELSE << >>)
         \o X11Branches_NoElse(table, code, n, i + 1)
RECURSIVE X11Branches(_, _, _, _)
X11Branches(table, code, n, i) ==
    IF i > Len(KeyChain) THEN << >>
    ELSE IF ChainHit(table, code, n, i) THEN << KeyChain[i] >>
    ELSE X11Branches(table, code, n, i + 1)

(* The branches ks run one after the other on the state st: the engine, the
   X server, the cursor, whether iRunning was cleared, the calls issued. *)
RECURSIVE RunBranches(_, _, _)
RunBranches(ks, st, g) ==
    IF ks = << >> THEN st
    ELSE LET r == X11KeyPress(Head(ks), st.vlc.time, st.vlc.volume, iEndTimeMs,
                              iNumVlcAudioTracks, st.cur, pVlcAudioTrackId.ids, g)
         IN  RunBranches(Tail(ks),
                         [vlc |-> EngineApply(st.vlc, r.call),
                          x11 |-> PositionWindow(st.x11, r.call),
                          cur |-> r.cur,
                          stop |-> st.stop \/ r.stop,
                          calls |-> IF r.call = NoCall THEN st.calls
                                    ELSE Append(st.calls, r.call)],
                         g)

NoPress == [code |-> 0, branches |-> << >>, calls |-> << >>, t |-> 0, vol |-> 0,
            key |-> "none", call |-> NoCall]

(* Either the input window has just been mapped and the key codes are about
   to be looked up, or a session is playing inside the loop with some table. *)
TableInit ==
    /\ build \in Builds
    /\ pc \in {"table_keycodes", "key_wait"}
    /\ build = "win32" => pc = "key_wait"
    /\ iErr = 0
    /\ iPlay = IF pc = "key_wait" THEN 1 ELSE 0
    /\ iRunning = 1
    /\ pX11Display = IF build = "x11" THEN "open" ELSE "NULL"
    /\ wInput = IF build = "x11" THEN "wInput" ELSE "None"
    /\ wTaskbar = "None"
    /\ pVlcInst = IF pc = "key_wait" THEN "inst" ELSE "NULL"
    /\ pVlcPlayer = IF pc = "key_wait" THEN "player" ELSE "NULL"
    /\ iNumVlcAudioTracks \in IF pc = "key_wait" THEN TrackCounts ELSE {0}
    /\ pVlcAudioTrackId =
          IF iNumVlcAudioTracks > 1
          THEN [alloc |-> "heap", ids |-> SubSeq(EngineTrackIds, 1, iNumVlcAudioTracks)]
          ELSE [alloc |-> "NULL", ids |-> << >>]
    /\ iEndTimeMs = IF pc = "key_wait" THEN 2 * FSPLAYER_10SEC ELSE 0
    /\ iVlcAudioTrack = [set |-> (build = "win32"), v |-> 0]
    /\ kc \in IF build = "x11" /\ pc = "key_wait" THEN TableKeyTables
              ELSE {NoKeycodes}
    /\ \E t \in {0, FSPLAYER_10SEC} :
          /\ pc = "table_keycodes" => t = 0
          /\ vlc = [state |-> IF pc = "key_wait" THEN libvlc_Playing
                              ELSE libvlc_NothingSpecial,
                    time |-> t, volume |-> 50, track |-> -1,
                    size |-> IF pc = "key_wait" THEN "known" ELSE "unknown"]
    /\ x11 = [taskbar |-> "absent", small |-> (pc = "key_wait"), pos |-> 0,
              focus |-> "input", top |-> "other",
              fs |-> IF build = "x11" /\ pc = "key_wait" THEN "input" ELSE "none",
              created |-> (build = "x11"), nullUse |-> {},
              wVlc |-> IF build = "x11" /\ pc = "key_wait" THEN "wVlc" ELSE "None"]
    /\ it = NewIteration
    /\ last = NoPress
    /\ initLog = << >>
    /\ firstFail = NoFail
    /\ tdLog = << >>
    /\ printed = 0
    /\ nEvents = 0

(* The 22 XKeysymToKeycode calls, the warning when one of them gave 0, and
   libvlc_new, which ends the block. *)
TableKeycodes ==
    /\ pc = "table_keycodes"
    /\ \E table \in TableKeyTables, ok \in BOOLEAN :
          /\ kc' = table
          /\ pVlcInst' = IF ok THEN "inst" ELSE "NULL"
          /\ iErr' = IF ok THEN 0 ELSE ERROR_FSPLAYER_VLC
          /\ NoteFail("libvlc_new", IF ok THEN 0 ELSE ERROR_FSPLAYER_VLC)
          /\ initLog' = initLog
                \o (IF \E k \in Keys : table[k] = 0 THEN << "keycode_warning" >>
                    ELSE << >>)
                \o << "libvlc_new" >>
    /\ pc' = "media_new"
    /\ UNCHANGED << build, iPlay, iRunning, pX11Display, wInput, wTaskbar,
                    pVlcPlayer, pVlcAudioTrackId, iEndTimeMs, iNumVlcAudioTracks,
                    iVlcAudioTrack, vlc, x11, it, last, tdLog, printed, nEvents >>

(* XNextEvent delivers a KeyPress with some code and the chain runs on it. *)
TableKeyPress ==
    /\ build = "x11"
    /\ pc = "key_wait"
    /\ \E code \in KeyCodes, cur \in CursorReads, g \in GarbageIds :
          LET ks == X11Branches(kc, code, iNumVlcAudioTracks, 1)
              st == RunBranches(ks, [vlc |-> vlc, x11 |-> x11, cur |-> cur,
                                     stop |-> FALSE, calls |-> << >>], g)
          IN  /\ vlc' = st.vlc
              /\ x11' = st.x11
              /\ iVlcAudioTrack' = IF st.cur = cur THEN iVlcAudioTrack
                                   ELSE [set |-> TRUE, v |-> st.cur]
              /\ iRunning' = IF st.stop THEN 0 ELSE iRunning
              /\ it' = [it EXCEPT !.esc = @ \/ st.stop, !.ev = @ + 1]
              /\ last' = [code |-> code, branches |-> ks, calls |-> st.calls,
                          t |-> vlc.time, vol |-> vlc.volume,
                          key |-> X11Dispatch(kc, code, iNumVlcAudioTracks),
                          call |-> IF st.calls = << >> THEN NoCall
                                   ELSE st.calls[Len(st.calls)]]
    /\ pc' = "key_done"
    /\ nEvents' = nEvents + 1
    /\ UNCHANGED << build, iErr, iPlay, pX11Display, wInput, wTaskbar, pVlcInst,
                    pVlcPlayer, pVlcAudioTrackId, iEndTimeMs, iNumVlcAudioTracks,
                    kc, initLog, firstFail, tdLog, printed >>

(* The form receives a key-down and FormKeyDown's switch runs on it. *)
TableKeyDown ==
    /\ build = "win32"
    /\ pc = "key_wait"
    /\ \E key \in W32Keys \cup {"vkOther"}, g \in GarbageIds :
          LET p == W32Press(key, g)
          IN  /\ W32HandleKeyDown(p)
              /\ last' = [code |-> 0, branches |-> << >>,
                          calls |-> IF p.call = NoCall THEN << >> ELSE << p.call >>,
                          t |-> p.t, vol |-> p.vol, key |-> p.key, call |-> p.call]
    /\ pc' = "key_done"
    /\ nEvents' = nEvents + 1
    /\ UNCHANGED << build, iErr, iPlay, pX11Display, wInput, wTaskbar, pVlcInst,
                    pVlcPlayer, pVlcAudioTrackId, iEndTimeMs, iNumVlcAudioTracks,
                    kc, x11, it, initLog, firstFail, tdLog, printed >>

TableNext == TableKeycodes \/ TableKeyPress \/ TableKeyDown

TableSpec == TableInit /\ [][TableNext]_vars

---------------------------------------------------------------------------
(* Taskbar suppression and restoration: TaskbarFindAndUnmap, TaskbarRaise *)

MaxBarWindows == 3

(* "xload", the WM_NAME(STRING) value TaskbarFindAndUnmap looks for. *)
XloadName == << "x", "l", "o", "a", "d" >>

(* The names the windows may carry: none, "xload", a name that begins with
   it. *)
BarNames == { NoName, XloadName, XloadName \o << "a", "v", "g" >> }

(* The hierarchies of MaxBarWindows windows (shaped as Hierarchies). *)
BarHierarchies ==
    { [n |-> n, parent |-> par, name |-> nm, desc |-> d, back |-> b] :
         n \in {MaxBarWindows},
         par \in { f \in [1..MaxBarWindows -> 0..MaxBarWindows] :
                      /\ f[1] = 0
                      /\ \A i \in 2..MaxBarWindows : f[i] \in 1..(i - 1) },
         nm \in [1..MaxBarWindows -> BarNames],
         d \in BOOLEAN,
         b \in {{}, BackEdges} }

(* The server's record of the windows: the override-redirect flag and
   whether the window is mapped. The root is mapped and not
   override-redirect. *)
WindowAttributes ==
    { [ovr |-> o, mapped |-> m] :
         o \in { f \in [1..MaxBarWindows -> BOOLEAN] : ~f[wRootId] },
         m \in { f \in [1..MaxBarWindows -> BOOLEAN] : f[wRootId] } }

(* map_state of w: IsUnmapped when w is not mapped, IsViewable when w and
   all its ancestors are mapped, IsUnviewable otherwise. *)
RECURSIVE AncestorsMapped(_, _, _)
AncestorsMapped(T, mapped, w) ==
    IF T.parent[w] = 0 THEN TRUE
    ELSE mapped[T.parent[w]] /\ AncestorsMapped(T, mapped, T.parent[w])

MapState(T, mapped, w) ==
    IF ~mapped[w] THEN "IsUnmapped"
    ELSE IF AncestorsMapped(T, mapped, w) THEN "IsViewable"
    ELSE "IsUnviewable"

(* XGetWindowAttributes(w): fails on a handle that names no window (0). *)
GetWindowAttributes(X, w) ==
    IF w \in 1..X.tree.n
    THEN [ok |-> TRUE, override_redirect |-> X.ovr[w],
          map_state |-> MapState(X.tree, X.mapped, w)]
    ELSE [ok |-> FALSE, override_redirect |-> FALSE, map_state |-> "IsUnmapped"]

(* if (attrib.override_redirect && attrib.map_state == IsViewable) *)
TaskbarHeuristic_AnyMapState(attrib) == attrib.override_redirect

TaskbarHeuristic(attrib) ==
    attrib.override_redirect /\ attrib.map_state = "IsViewable"

(* XUnmapWindow(w), XMapRaised(w): the request is recorded and the window's
   mapped flag changed. *)
XUnmapWindow(X, w) ==
    [X EXCEPT !.mapped[w] = FALSE, !.calls = Append(@, << "XUnmapWindow", w >>)]

XMapRaised(X, w) ==
    [X EXCEPT !.mapped[w] = TRUE, !.calls = Append(@, << "XMapRaised", w >>)]

(* TaskbarFindAndUnmap: the record reset to 0, the search for "xload" from
   the root, and, with a window found, the test of its master's attributes;
   the result is the record, the search's outputs and the server's state. *)
TaskbarFindAndUnmap(X) ==
    LET r == FindX11Window(X.tree, wRootId, XloadName,
                           [ret |-> 0, master |-> 0, queried |-> << >>])
        wXload == r.out.ret
        wMaster == r.out.master
        attrib == GetWindowAttributes(X, wMaster)
        s == [wXload |-> wXload, wMaster |-> wMaster, attrOk |-> TRUE]
    IN  IF wXload = 0 THEN [pTaskbar |-> 0, X |-> [X EXCEPT !.search = s]]
        ELSE IF ~attrib.ok
        THEN [pTaskbar |-> 0, X |-> [X EXCEPT !.search = [s EXCEPT !.attrOk = FALSE]]]
        ELSE IF TaskbarHeuristic(attrib)
        THEN [pTaskbar |-> wMaster, X |-> XUnmapWindow([X EXCEPT !.search = s], wMaster)]
        ELSE [pTaskbar |-> 0, X |-> [X EXCEPT !.search = s]]

(* TaskbarRaise: XMapRaised only with a recorded handle. *)
TaskbarRaise(X, w) ==
    IF w # 0 THEN XMapRaised(X, w) ELSE X

(* The display is open, the server holds some hierarchy, wTaskbar = 0. *)
BarInit ==
    /\ build = "x11"
    /\ pc = "bar_wait"
    /\ iErr = 0
    /\ iPlay = 0
    /\ iRunning = 1
    /\ pX11Display = "open"
    /\ wInput = "wInput"
    /\ wTaskbar = 0
    /\ pVlcInst = "pVlcInst"
    /\ pVlcPlayer = "pVlcPlayer"
    /\ pVlcAudioTrackId = [alloc |-> "NULL", ids |-> << >>]
    /\ iEndTimeMs = FSPLAYER_10SEC
    /\ iNumVlcAudioTracks = 0
    /\ iVlcAudioTrack = [set |-> FALSE, v |-> 0]
    /\ kc = StdKeycodes
    /\ vlc = [state |-> libvlc_Paused, time |-> 0, volume |-> VolumeMax,
              track |-> -1, size |-> "known"]
    /\ \E T \in BarHierarchies, A \in WindowAttributes :
          x11 = [tree |-> T, ovr |-> A.ovr, mapped |-> A.mapped, mapped0 |-> A.mapped,
                 search |-> [wXload |-> 0, wMaster |-> 0, attrOk |-> TRUE],
                 calls |-> << >>]
    /\ it = NewIteration
    /\ last = NoKey
    /\ initLog = << >>
    /\ firstFail = NoFail
    /\ tdLog = << >>
    /\ printed = 0
    /\ nEvents = 0

(* TaskbarFindAndUnmap(pX11Display, wRoot, &wTaskbar); a failed attribute
   request on the handle 0 is an X error, which ends the process. *)
BarFindAndUnmap ==
    /\ pc = "bar_wait"
    /\ LET r == TaskbarFindAndUnmap(x11)
       IN  /\ wTaskbar' = r.pTaskbar
           /\ x11' = r.X
           /\ pc' = IF r.X.search.attrOk THEN "bar_hidden" ELSE "bar_xerror"
           /\ initLog' = Append(initLog, "taskbar")
    /\ UNCHANGED << build, iErr, iPlay, iRunning, pX11Display, wInput, pVlcInst,
                    pVlcPlayer, pVlcAudioTrackId, iEndTimeMs, iNumVlcAudioTracks,
                    iVlcAudioTrack, kc, vlc, it, last, firstFail, tdLog,
                    printed, nEvents >>

(* TaskbarRaise(pX11Display, wTaskbar) *)
BarRaise ==
    /\ pc = "bar_hidden"
    /\ x11' = TaskbarRaise(x11, wTaskbar)
    /\ pc' = "bar_done"
    /\ tdLog' = Append(tdLog, "taskbar_raise")
    /\ UNCHANGED << build, iErr, iPlay, iRunning, pX11Display, wInput, wTaskbar,
                    pVlcInst, pVlcPlayer, pVlcAudioTrackId, iEndTimeMs,
                    iNumVlcAudioTracks, iVlcAudioTrack, kc, vlc, it, last,
                    initLog, firstFail, printed, nEvents >>

BarNext == BarFindAndUnmap \/ BarRaise

BarSpec == BarInit /\ [][BarNext]_vars

---------------------------------------------------------------------------
(* The bounded wait of the event loop: the read set across iterations *)

MaxWaits == 3

(* select(iX11fd + 1, &readfds, 0, 0, &timeout) overwrites the read set: on
   return it holds the descriptors of the set that are ready, none after a
   timeout. ready: the descriptors with input when the wait ends. *)
SelectReturn(readfds, ready) == readfds \cap ready

(* The loop is about to be set up: the display is open, playback started. *)
WaitInit ==
    /\ build = "x11"
    /\ pc = "pre_loop"
    /\ iErr = 0
    /\ iPlay = 1
    /\ iRunning = 1
    /\ pX11Display = "open"
    /\ wInput = "wInput"
    /\ wTaskbar = "None"
    /\ pVlcInst = "inst"
    /\ pVlcPlayer = "player"
    /\ pVlcAudioTrackId = [alloc |-> "NULL", ids |-> << >>]
    /\ iEndTimeMs = FSPLAYER_10SEC
    /\ iNumVlcAudioTracks = 1
    /\ iVlcAudioTrack = [set |-> FALSE, v |-> 0]
    /\ kc = StdKeycodes
    /\ vlc = [state |-> libvlc_Playing, time |-> 0, volume |-> VolumeMax,
              track |-> -1, size |-> "known"]
    /\ x11 = [readfds |-> {}, waits |-> << >>]
    /\ it = NewIteration
    /\ last = NoKey
    /\ initLog = << >>
    /\ firstFail = NoFail
    /\ tdLog = << >>
    /\ printed = 0
    /\ nEvents = 0

(* iX11fd = ConnectionNumber(pX11Display); FD_ZERO(&readfds);
   FD_SET(iX11fd, &readfds): once, before the loop *)
WaitFdSet ==
    /\ pc = "pre_loop"
    /\ x11' = [x11 EXCEPT !.readfds = {"iX11fd"}]
    /\ pc' = "select"
    /\ UNCHANGED << build, iErr, iPlay, iRunning, pX11Display, wInput, wTaskbar,
                    pVlcInst, pVlcPlayer, pVlcAudioTrackId, iEndTimeMs,
                    iNumVlcAudioTracks, iVlcAudioTrack, kc, vlc, it, last,
                    initLog, firstFail, tdLog, printed, nEvents >>

(* One iteration that stays Running: the timeout is set, select() is called
   with the read set as the last call left it, and the pending events (ev of
   them) are drained; nothing in the loop writes the read set again. *)
WaitSelect ==
    /\ pc = "select"
    /\ nEvents < MaxWaits
    /\ \E ready \in SUBSET {"iX11fd"}, ev \in 0..MaxEvents :
          /\ x11' = [x11 EXCEPT
                       !.readfds = SelectReturn(@, ready),
                       !.waits = Append(@, [passed |-> x11.readfds,
                                            ready |-> ready, ev |-> ev])]
          /\ it' = [NewIteration EXCEPT !.timeout = SelectTimeoutUs, !.ev = ev]
    /\ nEvents' = nEvents + 1
    /\ pc' = "select"
    /\ UNCHANGED << build, iErr, iPlay, iRunning, pX11Display, wInput, wTaskbar,
                    pVlcInst, pVlcPlayer, pVlcAudioTrackId, iEndTimeMs,
                    iNumVlcAudioTracks, iVlcAudioTrack, kc, vlc, last,
                    initLog, firstFail, tdLog, printed >>

WaitNext == WaitFdSet \/ WaitSelect

WaitSpec == WaitInit /\ [][WaitNext]_vars

---------------------------------------------------------------------------
(* FindMaster: the climb from a window to its ancestor below the root *)

(* The hierarchies FindMaster climbs: only the parent links matter. *)
MasterTrees ==
    { T \in Hierarchies :
         /\ \A i \in 1..T.n : T.name[i] = NoName
         /\ ~T.desc
         /\ T.back = {} }

(* The do-while loop: XQueryTree(w) fails for the windows of fail and for a
   handle that names no window; it gives w's parent and the root otherwise.
   master is what *pMaster holds. *)
RECURSIVE FindMasterLoop(_, _, _, _)
FindMasterLoop(T, w, master, fail) ==
    IF w \notin 1..T.n \/ w \in fail THEN master
    ELSE IF T.parent[w] = wRootId THEN w
    ELSE FindMasterLoop(T, T.parent[w], master, fail)

(* FindMaster(w): *pMaster = w, then the loop. *)
FindMaster_OneStep(T, w, fail) ==
    IF w \in fail \/ T.parent[w] = wRootId THEN w ELSE T.parent[w]

FindMaster(T, w, fail) == FindMasterLoop(T, w, w, fail)

(* The display is open; some hierarchy, some window w of it that is not the
   root, and the windows whose tree query fails. *)
MasterInit ==
    /\ build = "x11"
    /\ pc = "master_wait"
    /\ iErr = 0
    /\ iPlay = 1
    /\ iRunning = 1
    /\ pX11Display = "open"
    /\ wInput = "wInput"
    /\ wTaskbar = "None"
    /\ pVlcInst = "inst"
    /\ pVlcPlayer = "player"
    /\ pVlcAudioTrackId = [alloc |-> "NULL", ids |-> << >>]
    /\ iEndTimeMs = FSPLAYER_10SEC
    /\ iNumVlcAudioTracks = 1
    /\ iVlcAudioTrack = [set |-> FALSE, v |-> 0]
    /\ kc = StdKeycodes
    /\ vlc = [state |-> libvlc_Paused, time |-> 0, volume |-> VolumeMax,
              track |-> -1, size |-> "known"]
    /\ \E T \in MasterTrees, w \in 2..MaxWindows, fail \in SUBSET (1..MaxWindows) :
          x11 = [tree |-> T, w |-> w, fail |-> fail, wInputMaster |-> 0]
    /\ it = NewIteration
    /\ last = NoKey
    /\ initLog = << >>
    /\ firstFail = NoFail
    /\ tdLog = << >>
    /\ printed = 0
    /\ nEvents = 0

(* FindMaster(pX11Display, wInput, &wInputMaster) *)
MasterFind ==
    /\ pc = "master_wait"
    /\ x11' = [x11 EXCEPT !.wInputMaster = FindMaster(x11.tree, x11.w, x11.fail)]
    /\ pc' = "master_done"
    /\ UNCHANGED << build, iErr, iPlay, iRunning, pX11Display, wInput, wTaskbar,
                    pVlcInst, pVlcPlayer, pVlcAudioTrackId, iEndTimeMs,
                    iNumVlcAudioTracks, iVlcAudioTrack, kc, vlc, it, last,
                    initLog, firstFail, tdLog, printed, nEvents >>

MasterSpec == MasterInit /\ [][MasterFind]_vars

---------------------------------------------------------------------------
(* Claims *)

(* C11: the only window destroyed is the input window created in this run,
   and a run that created it destroys it; a handle that was never assigned
   is not passed to XDestroyWindow. *)
C11_DestroyOnlyOwnWindow ==
    LET did == \E i \in 1..Len(tdLog) : tdLog[i] = "destroy_window"
    IN  /\ did => (x11.created /\ wInput = "wInput")
        /\ (pc = "done" /\ build = "x11" /\ x11.created) => did

(* C12: when the pre-flight lookup finds the engine's window, the run sets
   ERROR_FSPLAYER_VLCRUN, creates no input window, constructs no engine,
   starts no playback, does not enter the loop body and prints the
   already-running message; when the lookup finds nothing, no error is set. *)
C12_PreflightCollision ==
    LET ran(step) == \E i \in 1..Len(initLog) : initLog[i] = step
        preflightOnly == ran("preflight") /\ ~ran("find_vlc")
    IN  /\ (preflightOnly /\ x11.wVlc = "wVlc")
           => /\ iErr = ERROR_FSPLAYER_VLCRUN
              /\ initLog[Len(initLog)] = "preflight"
              /\ ~x11.created /\ wInput # "wInput"
              /\ pVlcInst = "NULL" /\ pVlcPlayer = "NULL"
              /\ iPlay = 0 /\ vlc.state = libvlc_NothingSpecial
              /\ pc \notin (LoopPcs \ {"loop_test"})
              /\ pc = "done" => printed = ERROR_FSPLAYER_VLCRUN
        /\ ran("find_vlc") => firstFail.step # "preflight"
        /\ (preflightOnly /\ x11.wVlc = "None" /\ pc = "create_input")
           => iErr = 0

(* A run stopped by the pre-flight collision has printed its message. *)
C12_Witness ==
    /\ pc = "done"
    /\ x11.wVlc = "wVlc"
    /\ Len(initLog) > 0
    /\ initLog[Len(initLog)] = "preflight"
    /\ printed = ERROR_FSPLAYER_VLCRUN

(* C13: when the player's window is not found after the paused start, the
   run fails with ERROR_FSPLAYER_FAIL, a code no other error kind has;
   fullscreen, taskbar suppression, the final play and the loop body are
   skipped, and teardown stops the playback that was started. *)
C13_PlayerWindowNotFound ==
    LET ran(step) == \E i \in 1..Len(initLog) : initLog[i] = step
        did(op) == \E i \in 1..Len(tdLog) : tdLog[i] = op
    IN  (ran("find_vlc") /\ x11.wVlc = "None")
        => /\ iErr = ERROR_FSPLAYER_FAIL
           /\ ERROR_FSPLAYER_FAIL \notin
                 {0, ERROR_FSPLAYER_USAGE, ERROR_FSPLAYER_X11, ERROR_FSPLAYER_VLC,
                  ERROR_FSPLAYER_MEM, ERROR_FSPLAYER_VLCRUN}
           /\ initLog[Len(initLog)] = "find_vlc"
           /\ x11.fs = "none" /\ wTaskbar = "None" /\ x11.taskbar = "absent"
           /\ vlc.state # libvlc_Playing
           /\ pc \notin (LoopPcs \ {"loop_test"})
           /\ iPlay = 1
           /\ pc = "done" => (did("stop") /\ printed = ERROR_FSPLAYER_FAIL)

(* A run whose player window was not found has stopped the playback and
   printed the window-not-found message. *)
C13_Witness ==
    /\ pc = "done"
    /\ Len(initLog) > 0
    /\ initLog[Len(initLog)] = "find_vlc"
    /\ x11.wVlc = "None"
    /\ Len(tdLog) > 0
    /\ tdLog[1] = "stop"
    /\ printed = ERROR_FSPLAYER_FAIL

(* C14: a keypad-multiply press with n >= 2 tracks and the cursor c in
   0..n-1 moves the cursor to (c+1) mod n and selects the id stored there,
   n such advances lead back to c, and with n <= 1 a press changes neither
   the cursor nor the engine's track. *)
RECURSIVE AdvanceTimes(_, _, _, _)
AdvanceTimes(b, c, n, k) ==
    IF k = 0 THEN c
    ELSE AdvanceTimes(b, IF b = "x11" THEN X11NextTrack(c, n) ELSE W32NextTrack(c, n),
                      n, k - 1)

C14_TrackAdvance ==
    [][ (pc = "hold_mult" /\ nEvents' = nEvents + 1)
        => LET n == iNumVlcAudioTracks
               c == iVlcAudioTrack
               d == (c.v + 1) % n
           IN  /\ (n >= 2 /\ c.set /\ c.v \in 0..(n - 1))
                  => /\ iVlcAudioTrack' = [set |-> TRUE, v |-> d]
                     /\ last'.call = Call("set_track", pVlcAudioTrackId.ids[d + 1])
                     /\ vlc'.track = pVlcAudioTrackId.ids[d + 1]
                     /\ AdvanceTimes(build, c.v, n, n) = c.v
               /\ n <= 1
                  => /\ iVlcAudioTrack' = iVlcAudioTrack
                     /\ last'.call = NoCall
                     /\ vlc'.track = vlc.track ]_vars

(* On the X11 build the cursor has wrapped from the last of three tracks
   back to the first, whose id is selected. *)
C14_Witness ==
    /\ build = "x11"
    /\ pc = "hold_mult"
    /\ iNumVlcAudioTracks = 3
    /\ nEvents = 4
    /\ iVlcAudioTrack = [set |-> TRUE, v |-> 0]
    /\ last.call = Call("set_track", 2)
    /\ vlc.track = 2

(* C15: the cursor is at index 0 when the loop starts, and the k-th
   keypad-multiply press selects the id at index k mod n (5, 7, 2 for the
   ids 2, 5, 7). *)
C15_CursorStartsAtZero ==
    /\ nEvents = 0 => iVlcAudioTrack = [set |-> TRUE, v |-> 0]
    /\ (pc = "hold_mult" /\ iNumVlcAudioTracks >= 2 /\ nEvents >= 1)
       => last.call = Call("set_track",
                           TrackIdAt(pVlcAudioTrackId.ids,
                                     nEvents % iNumVlcAudioTracks, 0))

(* C16: a volume key sets the volume read moved by 10 and clamped: never
   below the build's floor (0 on X11, 1 on Win32) and never above 100; at
   the floor a decrease sets the floor again, at 100 an increase sets 100
   again, however often the key repeats. *)
C16_VolumeClamp ==
    LET floor == IF build = "x11" THEN 0 ELSE 1
        Max(a, b) == IF a > b THEN a ELSE b
        Min(a, b) == IF a < b THEN a ELSE b
    IN  /\ (pc = "hold_minus" /\ nEvents >= 1)
           => /\ last.call = Call("set_volume", Max(floor, last.vol - 10))
              /\ last.vol = floor => last.call.arg = floor
        /\ (pc = "hold_plus" /\ nEvents >= 1)
           => /\ last.call = Call("set_volume", Min(100, last.vol + 10))
              /\ last.vol = 100 => last.call.arg = 100
        /\ (pc \in {"hold_minus", "hold_plus"} /\ nEvents >= 1)
           => /\ last.call.arg \in floor..100
              /\ vlc.volume = last.call.arg

(* On the Win32 build a decrease arrived with the volume already at the
   floor 1 and set it to 1 again. *)
C16_Witness ==
    /\ build = "win32"
    /\ pc = "hold_minus"
    /\ nEvents >= 2
    /\ last.vol = 1
    /\ vlc.volume = 1

(* C17: in a hierarchy where exactly one window carries the expected name,
   whatever the order of the children, the search reports found, that window,
   and as master the child of the root on the path to it. *)
RECURSIVE RootChildOf(_, _)
RootChildOf(T, w) ==
    IF T.parent[w] = wRootId THEN w ELSE RootChildOf(T, T.parent[w])

C17_OneMatch ==
    LET T == x11.tree
        M == {w \in 1..T.n : T.name[w] = FSPLAYER_LIBVLCWMNAME}
    IN  (pc = "tree_done" /\ T.back = {} /\ Cardinality(M) = 1)
        => \A w \in M :
              /\ x11.search.found
              /\ x11.search.wVlc = w
              /\ w # wRootId => x11.search.wMaster = RootChildOf(T, w)

(* C18: in a hierarchy where no window carries the expected name, back-edges
   to the root, the window itself and its parent included, the search ends
   with not-found and has read no window twice. *)
C18_NoMatch ==
    LET T == x11.tree
        q == x11.search.queried
    IN  (pc = "tree_done" /\ \A w \in 1..T.n : T.name[w] # FSPLAYER_LIBVLCWMNAME)
        => /\ ~x11.search.found
           /\ x11.search.wVlc = 0
           /\ iErr = ERROR_FSPLAYER_FAIL
           /\ \A i, j \in 1..Len(q) : q[i] = q[j] => i = j

(* C19: the window reported as the player's is one whose name is exactly
   the engine's title, and a window is reported whenever one has that name;
   a longer name that begins with the title is not matched. *)
C19_ExactName ==
    LET T == x11.tree
    IN  pc = "tree_done"
        => /\ x11.search.wVlc # 0
              => T.name[x11.search.wVlc] = FSPLAYER_LIBVLCWMNAME
           /\ (\E w \in 1..T.n : T.name[w] = FSPLAYER_LIBVLCWMNAME)
              => x11.search.wVlc # 0

(* C20: whenever the target window's origin translated to the root is a
   non-zero offset (x, y), the master is at (-x, -y) once SetWindowFullscreen
   has returned. *)
C20_CorrectiveMove ==
    (pc = "fs_done" /\ x11.xy # << 0, 0 >>)
    => x11.masterPos = << -x11.xy[1], -x11.xy[2] >>

(* C21: after every call of SetWindowFullscreen, moved or not, flag set or
   clear before, attribute query succeeding or failing, the master's
   override-redirect flag is what it was before the call. *)
C21_OverrideRestored ==
    pc = "fs_done" => x11.ovr = x11.ovr0

(* The master was moved with the flag set for the move, and the flag, clear
   before the call, is clear again. *)
C21_Witness ==
    /\ pc = "fs_done"
    /\ x11.moved
    /\ x11.ovrDuringMove
    /\ ~x11.ovr0
    /\ ~x11.ovr

(* C22: after the corrective move, wherever the master was, the target's
   origin translated to the root again is (0,0). *)
C22_OriginAtZero ==
    (pc = "fs_done" /\ x11.moved)
    => TranslateCoordinates(x11.masterPos, x11.inner) = << 0, 0 >>

(* C23: a successful start-up makes exactly one window fullscreen: the
   player's when the video is at least as large as the screen, otherwise the
   input window; in that other case the player's window is not resized and
   the player's master is moved to the centre. On Win32 the view covers the
   screen in the first case and is centred at the video's size otherwise. *)
C23_OneWindowFullscreen ==
    LET scr == x11.scr
        vid == x11.vid
        big == vid[1] >= scr[1] \/ vid[2] >= scr[2]
    IN  /\ (pc = "geom_run" /\ build = "x11")
           => /\ x11.player.resized # x11.input.resized
              /\ big <=> x11.player.resized
              /\ big <=> x11.fs = "vlc"
              /\ (~big /\ nEvents = 0)
                 => x11.player.masterPos =
                       << (scr[1] - x11.player.w) \div 2,
                          (scr[2] - x11.player.h) \div 2 >>
        /\ (pc = "geom_run" /\ build = "win32")
           => IF big
              THEN x11.view = [x |-> 0, y |-> 0, w |-> scr[1], h |-> scr[2]]
              ELSE /\ x11.view.w = vid[1] /\ x11.view.h = vid[2]
                   /\ x11.view.x = (scr[1] - vid[1]) \div 2
                   /\ x11.view.y = (scr[2] - vid[2]) \div 2

(* C30: a keypad key k in 1..9 moves a master smaller than the screen in
   both dimensions to the column left/centre/right for k in {1,4,7},
   {2,5,8}, {3,6,9} and the row top/middle/bottom for k in {7,8,9}, {4,5,6},
   {1,2,3}, which keeps it within the screen; a master not smaller than the
   screen in both dimensions stays where it is. *)
C30_KeypadReposition ==
    [][ (pc = "geom_run" /\ nEvents' = nEvents + 1)
        => LET W == x11.scr[1]
               H == x11.scr[2]
               g == x11.player
               pos == x11'.player.masterPos
               k == last'.call.arg
               number == [KpEnd |-> 1, KpDown |-> 2, KpPageDown |-> 3, KpLeft |-> 4,
                          KpBegin |-> 5, KpRight |-> 6, KpHome |-> 7, KpUp |-> 8,
                          KpPageUp |-> 9]
           IN  /\ last'.call.op = "position"
               /\ k = number[last'.key]
               /\ x11'.player.w = g.w /\ x11'.player.h = g.h
               /\ IF g.w < W /\ g.h < H
                  THEN /\ k \in {1, 4, 7} => pos[1] = 0
                       /\ k \in {2, 5, 8} => pos[1] = (W - g.w) \div 2
                       /\ k \in {3, 6, 9} => pos[1] = W - g.w
                       /\ k \in {7, 8, 9} => pos[2] = 0
                       /\ k \in {4, 5, 6} => pos[2] = (H - g.h) \div 2
                       /\ k \in {1, 2, 3} => pos[2] = H - g.h
                       /\ pos[1] >= 0 /\ pos[1] + g.w <= W
                       /\ pos[2] >= 0 /\ pos[2] + g.h <= H
                  ELSE pos = g.masterPos ]_vars

(* Keypad 3 has put a master of 2x1 in the bottom right corner of the
   screen. *)
C30_Witness ==
    /\ build = "x11"
    /\ pc = "geom_run"
    /\ last.call = Call("position", 3)
    /\ x11.player.w = 2 /\ x11.player.h = 1
    /\ x11.player.masterPos = << ScreenW - 2, ScreenH - 1 >>

(* C24: the fullscreen step (the view sizing on Win32), the taskbar
   suppression and the running loop are reached only after the video's size
   was obtained, a positive length was read and, on X11, the player's window
   was located; whenever the program is running the end time is positive and
   the player handle is valid. *)
C24_RunningPreconditions ==
    LET ran(step) == \E i \in 1..Len(initLog) : initLog[i] = step
        x11Running == build = "x11" /\ pc \in (LoopPcs \ {"loop_test"})
        w32Running == build = "win32" /\ pc = "w32_run"
                         /\ iRunning = FSPLAYER_STATE_PLAYING
    IN  /\ (build = "x11" /\ (ran("fullscreen") \/ ran("taskbar") \/ x11Running))
           => /\ vlc.size = "known"
              /\ iEndTimeMs > 0
              /\ x11.wVlc = "wVlc"
        /\ (build = "win32" /\ (ran("view_sizing") \/ w32Running))
           => /\ vlc.size = "known"
              /\ iEndTimeMs > 0
        /\ (x11Running \/ w32Running)
           => (iEndTimeMs > 0 /\ pVlcPlayer = "player")

(* C25: each loop iteration waits in select() with a timeout of at most one
   second (about 0.4 second), so a pending key press is handled within that
   time. *)
C25_SelectTimeout ==
    (build = "x11" /\ pc \in {"drain", "state_check", "time_check", "focus_check"})
    => /\ it.timeout > 0
       /\ it.timeout <= 1000000
       /\ it.timeout = 400000

(* C26: an absent (zero) entry of the key-code table never matches: no key
   press, one with code 0 included, runs the branch of a key whose entry is
   0; and absent entries set no error and do not stop the start-up, they
   only print a warning. *)
C26_AbsentNeverMatches ==
    LET logged(e) == \E i \in 1..Len(initLog) : initLog[i] = e
    IN  /\ (build = "x11" /\ pc = "key_done")
           => /\ \A i \in 1..Len(last.branches) : kc[last.branches[i]] # 0
              /\ last.code = 0
                 => /\ last.branches = << >> /\ last.calls = << >>
                    /\ iRunning = 1
                    /\ vlc.time = last.t /\ vlc.volume = last.vol
                    /\ vlc.track = -1 /\ vlc.state = libvlc_Playing
                    /\ x11.pos = 0
        /\ (build = "x11" /\ pc = "media_new")
           => /\ logged("keycode_warning") <=> (\E k \in Keys : kc[k] = 0)
              /\ initLog[Len(initLog)] = "libvlc_new"
              /\ iErr # 0 <=> pVlcInst = "NULL"
              /\ iErr \in {0, ERROR_FSPLAYER_VLC}

(* On a keyboard without keypad a key press of code 0 ran no branch. *)
C26_Witness ==
    /\ build = "x11"
    /\ pc = "key_done"
    /\ kc = SparseKeycodes
    /\ last.code = 0
    /\ last.branches = << >>

(* C27: a key press runs at most one command, whatever the table, two keys
   sharing one code included, and a code or key that is not recognised runs
   none. *)
C27_AtMostOneCommand ==
    LET untouched == /\ iRunning = 1
                     /\ vlc.time = last.t /\ vlc.volume = last.vol
                     /\ vlc.track = -1 /\ vlc.state = libvlc_Playing
                     /\ x11.pos = 0
    IN  pc = "key_done"
        => /\ Len(last.calls) <= 1
           /\ build = "x11"
              => /\ Len(last.branches) <= 1
                 /\ last.branches # << >> => last.branches[1] = last.key
                 /\ (\A k \in Keys : kc[k] = 0 \/ kc[k] # last.code)
                    => (last.branches = << >> /\ last.calls = << >> /\ untouched)
           /\ (build = "win32" /\ last.key \notin W32Keys)
              => (last.calls = << >> /\ untouched)

(* Home and End share one code; the press of that code ran End's branch
   alone. *)
C27_Witness ==
    /\ build = "x11"
    /\ pc = "key_done"
    /\ kc = SparseKeycodes
    /\ kc["Home"] = last.code
    /\ last.branches = << "End" >>
    /\ Len(last.calls) = 1

(* C28: taskbar suppression records a handle exactly when a window named
   "xload" was found and its master (its ancestor below the root) is
   override-redirect and viewable; then one window is unmapped, that
   master; in every other case the record is 0 and no window's mapped state
   has changed. *)
C28_TaskbarSuppression ==
    (pc \in {"bar_hidden", "bar_xerror"})
    => LET T == x11.tree
           named == {w \in 1..T.n : T.name[w] = XloadName}
           found == x11.search.wXload
           up[w \in 1..T.n] == IF T.parent[w] \in {0, wRootId} THEN w ELSE up[T.parent[w]]
           hidden == /\ found # 0
                     /\ found # wRootId
                     /\ x11.ovr[up[found]]
                     /\ MapState(T, x11.mapped0, up[found]) = "IsViewable"
       IN  /\ found # 0 <=> named # {}
           /\ found # 0 => found \in named
           /\ wTaskbar # 0 <=> hidden
           /\ hidden => /\ wTaskbar = up[found]
                        /\ x11.calls = << << "XUnmapWindow", wTaskbar >> >>
                        /\ x11.mapped = [x11.mapped0 EXCEPT ![wTaskbar] = FALSE]
           /\ ~hidden => /\ x11.calls = << >>
                         /\ x11.mapped = x11.mapped0

(* The xload window sits below an override-redirect, viewable master, which
   was unmapped and recorded. *)
C28_Witness ==
    /\ pc = "bar_hidden"
    /\ x11.search.wXload # 0
    /\ x11.search.wXload # wTaskbar
    /\ wTaskbar # 0
    /\ x11.tree.parent[x11.search.wXload] = wTaskbar
    /\ x11.calls = << << "XUnmapWindow", wTaskbar >> >>

(* C29: a run that unmapped the taskbar keeps it unmapped until teardown's
   restoration, which maps and raises it, once, on every path to the exit;
   a run whose record is null makes no restoration and its teardown changes
   no window. *)
C29_TaskbarRestored ==
    [][ LET raises(log) == Cardinality({i \in 1..Len(log) : log[i] = "taskbar_raise"})
        IN  build = "x11"
            => /\ wTaskbar # "None" <=> x11.taskbar \in {"unmapped", "raised"}
               /\ x11.taskbar = "unmapped"
                  => /\ pc \in {"pre_loop", "td_stop", "td_taskbar"} \cup LoopPcs
                     /\ raises(tdLog) = 0
                     /\ wTaskbar' = wTaskbar
               /\ (x11.taskbar = "unmapped" /\ x11'.taskbar # "unmapped")
                  => (pc = "td_taskbar" /\ x11'.taskbar = "raised" /\ raises(tdLog') = 1)
               /\ (pc = "td_taskbar" /\ wTaskbar # "None")
                  => (x11.taskbar = "unmapped" /\ x11'.taskbar = "raised")
               /\ (pc = "td_taskbar" /\ wTaskbar = "None")
                  => (x11' = x11 /\ raises(tdLog') = 0)
               /\ x11.taskbar = "raised"
                  => (x11'.taskbar = "raised" /\ raises(tdLog') = 1)
               /\ pc' \in {"done", "crashed"}
                  => /\ x11'.taskbar # "unmapped"
                     /\ raises(tdLog') = IF wTaskbar' # "None" THEN 1 ELSE 0
          ]_vars

(* A run ended by Escape with the taskbar hidden has restored it in its
   teardown. *)
C29_Witness ==
    /\ build = "x11"
    /\ pc = "done"
    /\ wTaskbar # "None"
    /\ x11.taskbar = "raised"
    /\ it.esc
    /\ iErr = 0

(* C31: at the end of an iteration still Running in which the focus was
   found on the player's window or its master, the input window's master
   is above the player's master and the input window has the focus; with
   the focus elsewhere the loop changes neither the stacking nor the
   focus. *)
C31_FocusTugOfWar ==
    [][ (build = "x11" /\ pc = "focus_check")
        => IF iRunning # 0 /\ it'.w \in {"vlc", "master"}
           THEN x11'.top = "inputMaster" /\ x11'.focus = "input"
           ELSE x11'.top = x11.top /\ (iRunning # 0 => x11'.focus = it'.w)
      ]_vars

(* C32: whenever a keypad-multiply press has indexed the track-id list, the
   cursor it indexed with is an assigned value c with 0 <= c < n, n the
   number of allocated entries. *)
C32_CursorInRange ==
    (pc = "hold_mult" /\ iNumVlcAudioTracks > 1 /\ nEvents >= 1)
    => /\ iVlcAudioTrack.set
       /\ iVlcAudioTrack.v \in 0..(Len(pVlcAudioTrackId.ids) - 1)

(* C33: every id passed to the select-audio-track call is an id the track
   enumeration returned at start-up: it was read from an entry of the id
   list that the enumeration filled, also when the description list was
   missing or shorter than the track count. *)
C33_OnlyEnumeratedIds ==
    (pc = "hold_mult" /\ last.call.op = "set_track")
    => /\ iVlcAudioTrack.v \in 0..(pVlcAudioTrackId.filled - 1)
       /\ last.call.arg = pVlcAudioTrackId.ids[iVlcAudioTrack.v + 1]

(* C35: once an Escape key press has been handled, the events that follow
   it in the same drain issue no command: handling them changes neither the
   engine, nor the windows, nor the audio-track cursor. *)
C35_NothingAfterEscape ==
    [][ (build = "x11" /\ pc = "drain" /\ it.esc /\ it'.ev = it.ev + 1)
        => /\ vlc' = vlc
           /\ x11' = x11
           /\ iVlcAudioTrack' = iVlcAudioTrack
      ]_vars

(* C36: when the engine reaches the end of the media between the loop's
   state query and its time query, the time check records no error: a run
   that ends by normal end-of-media leaves the loop without the engine
   error code. *)
C36_EndOfMediaNoError ==
    [][ (build = "x11" /\ pc = "time_check" /\ iRunning # 0
         /\ vlc.state = libvlc_Ended /\ pc' = "focus_check")
        => /\ iErr' = 0
           /\ iRunning' = 0
      ]_vars

(* C34: at every wait of the loop, those that follow a wait that timed out
   included, the display connection's descriptor is in the read set passed
   to select(). *)
C34_DescriptorInReadSet ==
    pc = "select"
    => \A i \in 1..Len(x11.waits) : "iX11fd" \in x11.waits[i].passed

(* C37: if from some point on the engine's state is at or beyond Stopped,
   or its time at or beyond the end time, then the loop ends and teardown
   completes: the stop, the taskbar restored if it had been hidden, the
   releases, the display closed; no display event is needed for it. *)
C37_LoopTerminates ==
    LET ended == /\ build = "x11"
                 /\ iPlay # 0
                 /\ pc \in LoopPcs \cup TeardownPcs
                 /\ vlc.state >= libvlc_Stopped \/ vlc.time >= iEndTimeMs
        did(op) == \E i \in 1..Len(tdLog) : tdLog[i] = op
        torndown == /\ pc = "done"
                    /\ did("stop")
                    /\ did("taskbar_raise") <=> wTaskbar # "None"
                    /\ did("release_player") /\ did("release_inst")
                    /\ did("destroy_window") /\ did("close_display")
                    /\ pX11Display = "closed"
    IN  (<>[]ended) => <>torndown

(* The engine ended while the loop waited with no event ever handled, and
   the teardown has completed. *)
C37_Witness ==
    /\ build = "x11"
    /\ pc = "done"
    /\ nEvents = 0
    /\ it.st.q /\ it.st.v = libvlc_Ended
    /\ iErr = 0
    /\ pX11Display = "closed"

(* C38: for a window w that is not the root, FindMaster returns the one
   window among w and its ancestors whose parent is the root; when a tree
   query fails on the way up (at w, at an ancestor, at that window itself)
   it returns w. *)
C38_FindMaster ==
    pc = "master_done"
    => LET T == x11.tree
           anc[v \in 1..T.n] == IF T.parent[v] = 0 THEN {v}
                                ELSE {v} \cup anc[T.parent[v]]
           climbed == anc[x11.w] \ {wRootId}
           masters == {v \in climbed : T.parent[v] = wRootId}
       IN  /\ Cardinality(masters) = 1
           /\ IF climbed \cap x11.fail = {}
              THEN x11.wInputMaster \in masters
              ELSE x11.wInputMaster = x11.w

(* The window is three levels below the root and every query succeeded:
   the master found is its grandparent. *)
C38_Witness ==
    /\ pc = "master_done"
    /\ x11.fail = {}
    /\ x11.tree.parent[x11.w] \notin {0, wRootId}
    /\ x11.tree.parent[x11.tree.parent[x11.w]] \notin {0, wRootId}
    /\ x11.wInputMaster = x11.tree.parent[x11.tree.parent[x11.w]]

====
